---- MODULE Spec2Model ----
(***************************************************************************)
(* State-machine model of the VizFX engine core (class VizFX) together     *)
(* with the parts of its host it talks to: the frame scheduler             *)
(* (requestAnimationFrame / cancelAnimationFrame), the clock               *)
(* (performance.now), the canvas element and the window's resize           *)
(* listeners.  Effects are the objects handed to addEffect; every call the *)
(* engine makes on one of them is recorded in `trace`.                     *)
(*                                                                         *)
(* Times are kept in milliseconds as the clock reports them; the seconds   *)
(* handed to effects are the fractions ms/1000.  Sizes handed to effects   *)
(* are fractions too, because addEffect divides by the device pixel ratio. *)
(***************************************************************************)
EXTENDS Integers, Sequences, FiniteSets

VARIABLES
    effects,            \* VizFX.effects: the ordered effect list
    isRunning,          \* VizFX.isRunning
    animationId,        \* VizFX.animationId (NoId models null)
    startTime,          \* VizFX.startTime, ms
    lastTime,           \* VizFX.lastTime, ms
    gl,                 \* VizFX.gl
    interactionManager, \* VizFX.interactionManager
    dpr,                \* VizFX.dpr, a fraction [n, d]
    canvas,             \* the canvas element: width, height, style, client box
    viewport,           \* the last gl.viewport(0, 0, w, h)
    pending,            \* host: frame callbacks requested and not yet run or cancelled
    nextRafId,          \* host: the handle the next requestAnimationFrame returns
    now,                \* host: performance.now(), ms
    windowListeners,    \* host: the window's 'resize' listeners, by function identity
    trace,              \* the calls the last step made on effects and collaborators
    lastOp,             \* the last step: the operation or host event, and its arguments
    sinceStop,          \* a stop() has returned and start() was not called since
    gpu,                \* the effects' GPU handles and the objects of the GL context
    construction,       \* a `new VizFX(options)` in progress
    particleSystem,     \* a ParticleSystem effect
    floatingParticles,  \* a FloatingParticles effect
    pointer,            \* an InteractionManager and the canvas it listens to
    gradientMesh,       \* a GradientMesh effect
    waveEffect          \* a WaveEffect effect

vars == <<effects, isRunning, animationId, startTime, lastTime, gl,
          interactionManager, dpr, canvas, viewport, pending, nextRafId, now,
          windowListeners, trace, lastOp, sinceStop, gpu, construction,
          particleSystem, floatingParticles, pointer, gradientMesh, waveEffect>>

\* the engine with its host and the record of its last step
engineAndHost == <<effects, isRunning, animationId, startTime, lastTime, gl,
                   interactionManager, dpr, canvas, viewport, pending, nextRafId,
                   now, windowListeners, trace, lastOp, sinceStop>>

\* the objects modelled on their own; a specification that is not about one
\* of them leaves it idle
objectVars == <<gpu, construction, particleSystem, floatingParticles, pointer,
                gradientMesh, waveEffect>>

Idle == "idle"

ObjectsIdle ==
    /\ gpu = Idle
    /\ construction = Idle
    /\ particleSystem = Idle
    /\ floatingParticles = Idle
    /\ pointer = Idle
    /\ gradientMesh = Idle
    /\ waveEffect = Idle

engineVars == <<effects, isRunning, animationId, startTime, lastTime, gl,
                interactionManager, dpr, canvas, viewport>>

(***************************************************************************)
(* Bounds of the model.                                                    *)
(***************************************************************************)
MaxEffects == 2     \* longest effect list explored
MaxTime == 2        \* the clock runs from 0 to MaxTime ms
MaxRaf == 3         \* frame callbacks the host hands out

(***************************************************************************)
(* Values.                                                                 *)
(***************************************************************************)
NULL == "null"
NoId == 0
NoEffect == "none"
Effects == {"e1", "e2"}
MsPerSecond == 1000

\* explicit width/height arguments, logical pixels
ArgSizes == {3}
\* the client boxes <<clientWidth, clientHeight>> the layout can give the canvas
ClientBoxes == {<<2, 3>>, <<3, 2>>}
\* an optional numeric argument: {} is "omitted", {x} is the value x
OptArgs == {{}} \cup {{s} : s \in ArgSizes}
\* device pixel ratios: 1, 2 and 1.5
DprSet == {[n |-> 1, d |-> 1], [n |-> 2, d |-> 1], [n |-> 3, d |-> 2]}

\* the two arrow functions `() => this.resize()`: each evaluation of the
\* expression is a new function object
ResizeListenerAdded == "closure@constructor"
ResizeListenerRemoved == "closure@destroy"

(***************************************************************************)
(* Arithmetic on fractions n / d in lowest terms, d > 0.                   *)
(***************************************************************************)
RECURSIVE GCD(_, _)
GCD(a, b) == IF b = 0 THEN a ELSE GCD(b, a % b)

Frac(n, d) ==
    IF d = 1 THEN [n |-> n, d |-> 1]
    ELSE LET g == GCD(n, d) IN [n |-> n \div g, d |-> d \div g]

Zero == Frac(0, 1)

\* x * r for an integer x and a fraction r
Times(x, r) == Frac(x * r.n, r.d)

\* x / r for an integer x and a fraction r
Over(x, r) == Frac(x * r.d, r.n)

\* p + q, p * q and p <= q for fractions
FracSum(p, q) == Frac(p.n * q.d + q.n * p.d, p.d * q.d)
FracTimes(p, q) == Frac(p.n * q.n, p.d * q.d)
FracLeq(p, q) == p.n * q.d <= q.n * p.d
Minus(p) == [n |-> -p.n, d |-> p.d]

\* performance.now() differences are milliseconds; effects get seconds
Seconds(ms) == Frac(ms, MsPerSecond)

\* WebIDL conversion of a non-negative number to `unsigned long`, which the
\* canvas width and height setters apply: the integer part
ToUnsignedLong(r) == r.n \div r.d

Range(s) == {s[i] : i \in 1..Len(s)}

(***************************************************************************)
(* Calls recorded in the trace.                                            *)
(***************************************************************************)
Call(c, e, a, b) == [call |-> c, eff |-> e, a |-> a, b |-> b]

ClearCall == Call("clear", "gl", Zero, Zero)
ImDestroyCall == Call("destroy", "interactionManager", Zero, Zero)

Op(name, e, w, h) == [op |-> name, eff |-> e, w |-> w, h |-> h]

(***************************************************************************)
(* VizFX.resize(width?, height?)                                           *)
(***************************************************************************)
Resolve(arg, fallback) == IF arg = {} THEN fallback ELSE CHOOSE x \in arg : TRUE

resize_ScaledSize(c, effs, ctx, ratio, aw, ah) ==
    IF ctx = NULL
    THEN [canvas |-> c, viewport |-> viewport, calls |-> <<>>]
    ELSE LET w == Resolve(aw, c.clientWidth)
             h == Resolve(ah, c.clientHeight)
             cw == ToUnsignedLong(Times(w, ratio))
             ch == ToUnsignedLong(Times(h, ratio))
         IN [canvas |-> [c EXCEPT !.width = cw, !.height = ch,
                                  !.styleWidth = <<w, "px">>,
                                  !.styleHeight = <<h, "px">>],
             viewport |-> <<0, 0, cw, ch>>,
             calls |-> [i \in 1..Len(effs) |->
                          Call("resize", effs[i], Frac(cw, 1), Frac(ch, 1))]]

resize(c, effs, ctx, ratio, aw, ah) ==
    IF ctx = NULL
    THEN [canvas |-> c, viewport |-> viewport, calls |-> <<>>]
    ELSE LET w == Resolve(aw, c.clientWidth)
             h == Resolve(ah, c.clientHeight)
             cw == ToUnsignedLong(Times(w, ratio))
             ch == ToUnsignedLong(Times(h, ratio))
         IN [canvas |-> [c EXCEPT !.width = cw, !.height = ch,
                                  !.styleWidth = <<w, "px">>,
                                  !.styleHeight = <<h, "px">>],
             viewport |-> <<0, 0, cw, ch>>,
             calls |-> [i \in 1..Len(effs) |->
                          Call("resize", effs[i], Frac(w, 1), Frac(h, 1))]]

(***************************************************************************)
(* VizFX.animate: one frame.  `running`, `start` and `last` are the fields *)
(* as the caller left them, `pend` the host's pending callbacks and        *)
(* `clock` what performance.now() returns to animate.                      *)
(***************************************************************************)
Frame(effs, time, deltaTime) ==
    [i \in 1..(2 * Len(effs)) |->
        IF i % 2 = 1
        THEN Call("update", effs[(i + 1) \div 2], time, deltaTime)
        ELSE Call("render", effs[i \div 2], Zero, Zero)]

animate(running, start, last, pend, clock) ==
    IF ~running \/ gl = NULL
    THEN [animationId |-> animationId, pending |-> pend,
          nextRafId |-> nextRafId, lastTime |-> last, calls |-> <<>>]
    ELSE [animationId |-> nextRafId,
          pending |-> pend \cup {nextRafId},
          nextRafId |-> nextRafId + 1,
          lastTime |-> clock,
          calls |-> <<ClearCall>>
                    \o Frame(effects, Seconds(clock - start), Seconds(clock - last))]

(***************************************************************************)
(* VizFX.start.  start reads performance.now() itself (the variable now)   *)
(* and animate reads it again: `clock` is that second reading.             *)
(***************************************************************************)
start_NoGuard(clock) ==
    LET f == animate(TRUE, now, now, pending, clock)
    IN [isRunning |-> TRUE, startTime |-> now, lastTime |-> f.lastTime,
        animationId |-> f.animationId, pending |-> f.pending,
        nextRafId |-> f.nextRafId, calls |-> f.calls]

start_KeepLastTime(clock) ==
    IF isRunning
    THEN [isRunning |-> isRunning, startTime |-> startTime, lastTime |-> lastTime,
          animationId |-> animationId, pending |-> pending,
          nextRafId |-> nextRafId, calls |-> <<>>]
    ELSE LET f == animate(TRUE, now, lastTime, pending, clock)
         IN [isRunning |-> TRUE, startTime |-> now, lastTime |-> f.lastTime,
             animationId |-> f.animationId, pending |-> f.pending,
             nextRafId |-> f.nextRafId, calls |-> f.calls]

start(clock) ==
    IF isRunning
    THEN [isRunning |-> isRunning, startTime |-> startTime, lastTime |-> lastTime,
          animationId |-> animationId, pending |-> pending,
          nextRafId |-> nextRafId, calls |-> <<>>]
    ELSE LET f == animate(TRUE, now, now, pending, clock)
         IN [isRunning |-> TRUE, startTime |-> now, lastTime |-> f.lastTime,
             animationId |-> f.animationId, pending |-> f.pending,
             nextRafId |-> f.nextRafId, calls |-> f.calls]

(***************************************************************************)
(* VizFX.stop                                                              *)
(***************************************************************************)
stop_NoCancel ==
    IF ~isRunning
    THEN [isRunning |-> isRunning, animationId |-> animationId, pending |-> pending]
    ELSE [isRunning |-> FALSE, animationId |-> NoId, pending |-> pending]

stop_InvertedGuard ==
    IF isRunning
    THEN [isRunning |-> isRunning, animationId |-> animationId, pending |-> pending]
    ELSE IF animationId # NoId
         THEN [isRunning |-> FALSE, animationId |-> NoId,
               pending |-> pending \ {animationId}]
         ELSE [isRunning |-> FALSE, animationId |-> animationId, pending |-> pending]

stop ==
    IF ~isRunning
    THEN [isRunning |-> isRunning, animationId |-> animationId, pending |-> pending]
    ELSE IF animationId # NoId
         THEN [isRunning |-> FALSE, animationId |-> NoId,
               pending |-> pending \ {animationId}]
         ELSE [isRunning |-> FALSE, animationId |-> animationId, pending |-> pending]

(***************************************************************************)
(* VizFX.addEffect / VizFX.removeEffect                                    *)
(***************************************************************************)
addEffect(e) ==
    IF gl = NULL
    THEN [effects |-> effects, calls |-> <<>>]
    ELSE [effects |-> Append(effects, e),
          calls |-> <<Call("init", e, Zero, Zero),
                      Call("resize", e, Over(canvas.width, dpr),
                                        Over(canvas.height, dpr))>>]

\* Array.prototype.indexOf: the first index holding e, 0 for "not found" (-1)
IndexOf(s, e) ==
    IF e \in Range(s) THEN CHOOSE i \in 1..Len(s) :
                               s[i] = e /\ \A j \in 1..(i - 1) : s[j] # e
                      ELSE 0

\* Array.prototype.splice(index, 1)
Splice1(s, i) == [k \in 1..(Len(s) - 1) |-> IF k < i THEN s[k] ELSE s[k + 1]]

removeEffect(e) ==
    IF gl = NULL
    THEN [effects |-> effects, calls |-> <<>>]
    ELSE LET index == IndexOf(effects, e)
         IN IF index # 0
            THEN [effects |-> Splice1(effects, index),
                  calls |-> <<Call("destroy", e, Zero, Zero)>>]
            ELSE [effects |-> effects, calls |-> <<>>]

(***************************************************************************)
(* VizFX.destroy                                                           *)
(***************************************************************************)
destroy_NoStop ==
    [isRunning |-> isRunning, animationId |-> animationId,
     pending |-> pending,
     effects |-> <<>>,
     interactionManager |-> NULL,
     windowListeners |-> windowListeners \ {ResizeListenerRemoved},
     calls |-> (IF gl # NULL
                THEN [i \in 1..Len(effects) |->
                        Call("destroy", effects[i], Zero, Zero)]
                ELSE <<>>)
               \o (IF interactionManager # NULL THEN <<ImDestroyCall>> ELSE <<>>)]

destroy ==
    LET s == stop
    IN [isRunning |-> s.isRunning, animationId |-> s.animationId,
        pending |-> s.pending,
        effects |-> <<>>,
        interactionManager |-> NULL,
        windowListeners |-> windowListeners \ {ResizeListenerRemoved},
        calls |-> (IF gl # NULL
                   THEN [i \in 1..Len(effects) |->
                           Call("destroy", effects[i], Zero, Zero)]
                   ELSE <<>>)
                  \o (IF interactionManager # NULL THEN <<ImDestroyCall>> ELSE <<>>)]

(***************************************************************************)
(* The state after `new VizFX(options)` succeeded.                         *)
(***************************************************************************)
NewCanvas(cw, ch) ==
    [width |-> 0, height |-> 0, styleWidth |-> <<0, "px">>,
     styleHeight |-> <<0, "px">>, clientWidth |-> cw, clientHeight |-> ch]

\* new VizFX({canvas, pixelRatio: ratio, width: ow, height: oh}) on a canvas
\* whose layout box is box
EngineNew(ratio, ow, oh, box) ==
    LET r == resize(NewCanvas(box[1], box[2]), <<>>, "gl", ratio, ow, oh)
    IN /\ effects = <<>>
       /\ isRunning = FALSE
       /\ animationId = NoId
       /\ startTime = 0
       /\ lastTime = 0
       /\ gl = "gl"
       /\ interactionManager = "interactionManager"
       /\ dpr = ratio
       /\ canvas = r.canvas
       /\ viewport = r.viewport
       /\ pending = {}
       /\ nextRafId = 1
       /\ now = 0
       /\ windowListeners = {ResizeListenerAdded}
       /\ trace = <<>>
       /\ lastOp = Op("new", NoEffect, ow, oh)
       /\ sinceStop = FALSE

EngineInit ==
    \E ratio \in DprSet, ow \in OptArgs, oh \in OptArgs, box \in ClientBoxes :
        EngineNew(ratio, ow, oh, box)

\* the engine alone: the effect and helper objects modelled further down
\* are not part of this specification
Init == EngineInit /\ ObjectsIdle

(***************************************************************************)
(* Operations the page calls.                                              *)
(***************************************************************************)
\* the readings performance.now() can return to the animate that start()
\* calls: the clock may have advanced since start() read it
ClockReads == IF isRunning THEN {now} ELSE {t \in now..(now + 1) : t <= MaxTime}

\* start() whose animate reads the clock at `clock` and which returns when
\* the clock stands at `after`
StartUntil(clock, after) ==
    /\ isRunning \/ nextRafId <= MaxRaf
    /\ LET r == start(clock)
       IN /\ isRunning' = r.isRunning
          /\ startTime' = r.startTime
          /\ lastTime' = r.lastTime
          /\ animationId' = r.animationId
          /\ pending' = r.pending
          /\ nextRafId' = r.nextRafId
          /\ trace' = r.calls
    /\ now' = after
    /\ lastOp' = Op("start", NoEffect, {}, {})
    /\ sinceStop' = FALSE
    /\ UNCHANGED <<effects, gl, interactionManager, dpr, canvas, viewport,
                   windowListeners>>

Start == \E clock \in ClockReads : StartUntil(clock, clock)

Stop ==
    /\ LET r == stop
       IN /\ isRunning' = r.isRunning
          /\ animationId' = r.animationId
          /\ pending' = r.pending
    /\ trace' = <<>>
    /\ lastOp' = Op("stop", NoEffect, {}, {})
    /\ sinceStop' = TRUE
    /\ UNCHANGED <<effects, startTime, lastTime, gl, interactionManager, dpr,
                   canvas, viewport, nextRafId, now, windowListeners>>

AddEffect ==
    \E e \in Effects :
        /\ Len(effects) < MaxEffects
        /\ LET r == addEffect(e)
           IN /\ effects' = r.effects
              /\ trace' = r.calls
        /\ lastOp' = Op("addEffect", e, {}, {})
        /\ UNCHANGED <<isRunning, animationId, startTime, lastTime, gl,
                       interactionManager, dpr, canvas, viewport, pending,
                       nextRafId, now, windowListeners, sinceStop>>

RemoveEffect ==
    \E e \in Effects :
        /\ LET r == removeEffect(e)
           IN /\ effects' = r.effects
              /\ trace' = r.calls
        /\ lastOp' = Op("removeEffect", e, {}, {})
        /\ UNCHANGED <<isRunning, animationId, startTime, lastTime, gl,
                       interactionManager, dpr, canvas, viewport, pending,
                       nextRafId, now, windowListeners, sinceStop>>

Resize ==
    \E aw \in OptArgs, ah \in OptArgs :
        /\ LET r == resize(canvas, effects, gl, dpr, aw, ah)
           IN /\ canvas' = r.canvas
              /\ viewport' = r.viewport
              /\ trace' = r.calls
        /\ lastOp' = Op("resize", NoEffect, aw, ah)
        /\ UNCHANGED <<effects, isRunning, animationId, startTime, lastTime, gl,
                       interactionManager, dpr, pending, nextRafId, now,
                       windowListeners, sinceStop>>

Destroy ==
    /\ LET r == destroy
       IN /\ isRunning' = r.isRunning
          /\ animationId' = r.animationId
          /\ pending' = r.pending
          /\ effects' = r.effects
          /\ interactionManager' = r.interactionManager
          /\ windowListeners' = r.windowListeners
          /\ trace' = r.calls
    /\ lastOp' = Op("destroy", NoEffect, {}, {})
    /\ sinceStop' = TRUE
    /\ UNCHANGED <<startTime, lastTime, gl, dpr, canvas, viewport, nextRafId, now>>

(***************************************************************************)
(* Steps of the host.                                                      *)
(***************************************************************************)
\* the host runs a pending frame callback: it is taken off the pending list,
\* then VizFX.animate runs
\* a frame callback whose animate reads the clock as it stands and which
\* returns when the clock stands at `after`
TickUntil(after) ==
    \E id \in pending :
        /\ nextRafId <= MaxRaf
        /\ LET r == animate(isRunning, startTime, lastTime, pending \ {id}, now)
           IN /\ animationId' = r.animationId
              /\ pending' = r.pending
              /\ nextRafId' = r.nextRafId
              /\ lastTime' = r.lastTime
              /\ trace' = r.calls
        /\ now' = after
        /\ lastOp' = Op("tick", NoEffect, {}, {})
        /\ UNCHANGED <<effects, isRunning, startTime, gl, interactionManager, dpr,
                       canvas, viewport, windowListeners, sinceStop>>

Tick == TickUntil(now)

\* the window fires 'resize': every listener still registered calls resize()
WindowResize ==
    /\ LET r == IF windowListeners = {}
                THEN [canvas |-> canvas, viewport |-> viewport, calls |-> <<>>]
                ELSE resize(canvas, effects, gl, dpr, {}, {})
       IN /\ canvas' = r.canvas
          /\ viewport' = r.viewport
          /\ trace' = r.calls
    /\ lastOp' = Op("windowResize", NoEffect, {}, {})
    /\ UNCHANGED <<effects, isRunning, animationId, startTime, lastTime, gl,
                   interactionManager, dpr, pending, nextRafId, now,
                   windowListeners, sinceStop>>

\* the layout gives the canvas another client box
Layout ==
    \E box \in ClientBoxes :
        /\ box # <<canvas.clientWidth, canvas.clientHeight>>
        /\ canvas' = [canvas EXCEPT !.clientWidth = box[1], !.clientHeight = box[2]]
        /\ trace' = <<>>
        /\ lastOp' = Op("layout", NoEffect, {}, {})
        /\ UNCHANGED <<effects, isRunning, animationId, startTime, lastTime, gl,
                       interactionManager, dpr, viewport, pending, nextRafId, now,
                       windowListeners, sinceStop>>

\* time passes
AdvanceClock ==
    /\ now < MaxTime
    /\ now' = now + 1
    /\ trace' = <<>>
    /\ lastOp' = Op("clock", NoEffect, {}, {})
    /\ UNCHANGED <<effects, isRunning, animationId, startTime, lastTime, gl,
                   interactionManager, dpr, canvas, viewport, pending, nextRafId,
                   windowListeners, sinceStop>>

Next ==
    \/ Start /\ UNCHANGED objectVars
    \/ Stop /\ UNCHANGED objectVars
    \/ AddEffect /\ UNCHANGED objectVars
    \/ RemoveEffect /\ UNCHANGED objectVars
    \/ Resize /\ UNCHANGED objectVars
    \/ Destroy /\ UNCHANGED objectVars
    \/ Tick /\ UNCHANGED objectVars
    \/ WindowResize /\ UNCHANGED objectVars
    \/ Layout /\ UNCHANGED objectVars
    \/ AdvanceClock /\ UNCHANGED objectVars

Spec == Init /\ [][Next]_vars

(***************************************************************************)
(* Properties.                                                             *)
(***************************************************************************)
NoFrameCalls(t) == \A i \in 1..Len(t) : t[i].call \notin {"clear", "update", "render"}

CountCalls(t, c, e) == Cardinality({i \in 1..Len(t) : t[i].call = c /\ t[i].eff = e})

\* a frame ran in the last step (inside start(), or from the host's callback)
FrameRan == lastOp.op \in {"start", "tick"} /\ trace # <<>>

\* destroy() has returned at least once: it is the only writer of null to
\* interactionManager, and nothing sets the field again
Destroyed == interactionManager = NULL

\* C1: over any sequence of start(), stop(), destroy() and frame ticks, at
\* most one frame callback is pending with the host at any time.
C1_AtMostOneFrameCallback == Cardinality(pending) <= 1

\* a restart after a stop: the second callback handed out is the only one pending
C1_Witness ==
    /\ lastOp.op = "start"
    /\ trace # <<>>
    /\ nextRafId > 2
    /\ Cardinality(pending) = 1

\* C2: start() on a running engine changes nothing (no further callback, no
\* frame, start and last-frame timestamps kept); on a stopped engine it
\* records the start timestamp (its own clock reading) and begins the frame
\* scheduler, the first frame taking the clock reading of animate.
C2_StartIdempotent ==
    [][lastOp'.op = "start" =>
        IF isRunning
        THEN /\ UNCHANGED <<isRunning, startTime, lastTime, animationId, pending,
                            nextRafId, effects, canvas, viewport>>
             /\ NoFrameCalls(trace')
        ELSE /\ isRunning'
             /\ startTime' = now
             /\ lastTime' = now' /\ now' >= now
             /\ animationId' = nextRafId
             /\ pending' = pending \cup {nextRafId}
             /\ Len(trace') >= 1 /\ trace'[1] = ClearCall]_vars

\* start() was called on an engine that was already running
C2_Witness ==
    /\ lastOp.op = "start"
    /\ isRunning
    /\ trace = <<>>
    /\ effects # <<>>
    /\ now > startTime

\* C3: once stop() has returned, no effect receives an update or render call
\* until start() is called again.
C3_StopIsSynchronous == sinceStop => NoFrameCalls(trace) /\ pending = {}

\* stop() returned on an engine with effects whose frame callback had been requested
C3_Witness ==
    /\ sinceStop
    /\ lastOp.op = "stop"
    /\ effects # <<>>
    /\ nextRafId > 1
    /\ animationId = NoId

\* every frame is the clear followed by update, render of each list entry in order
FrameIsInterleavedPass ==
    FrameRan =>
        [i \in 1..Len(trace) |-> <<trace[i].call, trace[i].eff>>]
          = <<(<<"clear", "gl">>)>>
            \o [i \in 1..(2 * Len(effects)) |->
                  IF i % 2 = 1 THEN <<"update", effects[(i + 1) \div 2]>>
                               ELSE <<"render", effects[i \div 2]>>]

\* C4: a frame tick clears the surface once, then visits the effects in
\* registration order, update immediately followed by render of the same
\* effect; every registered effect gets exactly one update and one render.
C4_OneInterleavedPassPerTick ==
    /\ FrameIsInterleavedPass
    /\ FrameRan =>
         /\ CountCalls(trace, "clear", "gl") = 1
         /\ \A e \in Range(effects) :
               /\ CountCalls(trace, "update", e) = 1
               /\ CountCalls(trace, "render", e) = 1

\* C5: addEffect(e) calls e.init, appends e at the end of the list and sizes
\* e to the logical width and height the most recent resize resolved (the
\* ones it wrote to the canvas style and passed to the registered effects).
C5_AddEffectSizesToLogical ==
    lastOp.op = "addEffect" =>
        /\ trace = <<Call("init", lastOp.eff, Zero, Zero),
                     Call("resize", lastOp.eff, Frac(canvas.styleWidth[1], 1),
                                                Frac(canvas.styleHeight[1], 1))>>
        /\ effects # <<>>
        /\ effects[Len(effects)] = lastOp.eff

\* C6: an effect instance never appears twice in the engine's effect list.
C6_NoDuplicateRegistration ==
    \A i, j \in 1..Len(effects) : effects[i] = effects[j] => i = j

\* the list s without e, the other entries in their order
Without(s, e) == LET Keep(x) == x # e IN SelectSeq(s, Keep)

\* C7: removeEffect(e) for a registered e calls e.destroy and leaves the list
\* without e, the other effects in their order; for an e that is not
\* registered it calls nothing and leaves the list as it is.
C7_RemoveEffect ==
    [][lastOp'.op = "removeEffect" =>
        LET e == lastOp'.eff
        IN IF e \in Range(effects)
           THEN /\ trace' = <<Call("destroy", e, Zero, Zero)>>
                /\ effects' = Without(effects, e)
           ELSE /\ trace' = <<>>
                /\ effects' = effects]_vars

\* C8 as stated: resize(w?, h?) resolves each logical dimension from the
\* argument or the client box, sets the backing size to logical x dpr, and
\* calls resize on every registered effect exactly once, with the logical size.
C8_ResizeAsStated ==
    [][lastOp'.op = "resize" =>
        LET w == Resolve(lastOp'.w, canvas.clientWidth)
            h == Resolve(lastOp'.h, canvas.clientHeight)
        IN /\ Frac(canvas'.width, 1) = Times(w, dpr)
           /\ Frac(canvas'.height, 1) = Times(h, dpr)
           /\ \A i \in 1..Len(trace') :
                 trace'[i] = Call("resize", trace'[i].eff, Frac(w, 1), Frac(h, 1))
           /\ \A e \in Range(effects) : CountCalls(trace', "resize", e) = 1]_vars

\* C8 amended: the backing size is logical x dpr cut to a whole number of
\* pixels, and resize is called once for each entry of the effect list, in
\* order, always with the logical size.
C8_ResizePassesLogicalSize ==
    [][lastOp'.op = "resize" =>
        LET w == Resolve(lastOp'.w, canvas.clientWidth)
            h == Resolve(lastOp'.h, canvas.clientHeight)
        IN /\ canvas'.width * dpr.d <= w * dpr.n
           /\ w * dpr.n < (canvas'.width + 1) * dpr.d
           /\ canvas'.height * dpr.d <= h * dpr.n
           /\ h * dpr.n < (canvas'.height + 1) * dpr.d
           /\ Len(trace') = Len(effects)
           /\ \A i \in 1..Len(trace') :
                 trace'[i] = Call("resize", effects[i], Frac(w, 1), Frac(h, 1))]_vars

\* resize(undefined, 3) on two effects under a device pixel ratio of 1.5
C8_Witness ==
    /\ lastOp.op = "resize"
    /\ lastOp.w = {}
    /\ lastOp.h # {}
    /\ dpr.d = 2
    /\ Len(effects) = 2
    /\ Len(trace) = 2

\* C9: destroy() leaves no frame callback pending, calls destroy on every
\* registered effect before the interaction manager is released, empties the
\* list and nulls the interaction manager; a destroy() right after a
\* destroy() changes nothing and calls destroy on nothing.
C9_DestroyTearsDown ==
    [][lastOp'.op = "destroy" =>
        /\ pending' = {}
        /\ ~isRunning'
        /\ effects' = <<>>
        /\ interactionManager' = NULL
        /\ \A e \in Range(effects) : CountCalls(trace', "destroy", e) >= 1
        /\ \A i \in 1..Len(trace') :
              /\ trace'[i].call = "destroy"
              /\ trace'[i] = ImDestroyCall => i = Len(trace')
        /\ interactionManager # NULL => trace'[Len(trace')] = ImDestroyCall
        /\ lastOp.op = "destroy" =>
              /\ trace' = <<>>
              /\ UNCHANGED <<engineVars, pending, nextRafId, windowListeners>>]_vars

\* destroy() on an engine that had been started and holds two effects
C9_Witness ==
    /\ lastOp.op = "destroy"
    /\ Len(trace) = 3
    /\ nextRafId > 1
    /\ animationId = NoId

\* C10: after destroy() has returned, a window resize notification does not
\* invoke the engine's resize: canvas size, style and viewport stay as they are.
C10_ResizeObserverDetached ==
    [][(Destroyed /\ lastOp'.op = "windowResize") =>
          /\ UNCHANGED <<canvas, viewport>>
          /\ trace' = <<>>]_vars


(***************************************************************************)
(* GPU objects of the effects.                                             *)
(*                                                                         *)
(* e1 is a ParticleSystem and e2 a FloatingParticles.  gpu.handles holds   *)
(* the fields of each effect that refer to a GPU object (0 is null), and   *)
(* gpu.objects the objects the context has created so far, each with the   *)
(* number of gl.deleteProgram / gl.deleteBuffer calls it has received.     *)
(***************************************************************************)
MaxGlObjects == 6   \* GPU objects the context hands out

NoHandle == 0

EffectClass == [e1 |-> "ParticleSystem", e2 |-> "FloatingParticles"]

\* the fields assigned in init, in the order of assignment, with the kind of
\* object createProgram / gl.createBuffer returns
HandleFields(e) ==
    IF EffectClass[e] = "ParticleSystem"
    THEN <<[field |-> "program", kind |-> "program"],
           [field |-> "positionBuffer", kind |-> "buffer"]>>
    ELSE <<[field |-> "particleProgram", kind |-> "program"],
           [field |-> "lineProgram", kind |-> "program"],
           [field |-> "particleBuffer", kind |-> "buffer"],
           [field |-> "lineBuffer", kind |-> "buffer"]>>

FieldNames(e) == {HandleFields(e)[i].field : i \in 1..Len(HandleFields(e))}

\* createProgram(gl, vs, fs) and gl.createBuffer(): a new object of the context
CreateObject(g, e, f) ==
    [handles |-> [g.handles EXCEPT ![e][f.field] = Len(g.objects) + 1],
     objects |-> Append(g.objects, [kind |-> f.kind, owner |-> e, deleted |-> 0])]

\* `if (this.f) { gl.deleteX(this.f); this.f = null; }`
DeleteObject(g, e, f) ==
    LET h == g.handles[e][f.field]
    IN IF h # NoHandle
       THEN [handles |-> [g.handles EXCEPT ![e][f.field] = NoHandle],
             objects |-> [g.objects EXCEPT ![h].deleted = @ + 1]]
       ELSE g

RECURSIVE EffectInit_FromField(_, _, _)
EffectInit_FromField(g, e, i) ==
    IF i > Len(HandleFields(e)) THEN g
    ELSE EffectInit_FromField(CreateObject(g, e, HandleFields(e)[i]), e, i + 1)

\* Effect.init(gl): every handle field is assigned a newly created object
EffectInit(g, e) == EffectInit_FromField(g, e, 1)

RECURSIVE EffectDestroy_FromField(_, _, _)
EffectDestroy_FromField(g, e, i) ==
    IF i > Len(HandleFields(e)) THEN g
    ELSE EffectDestroy_FromField(DeleteObject(g, e, HandleFields(e)[i]), e, i + 1)

\* Effect.destroy(gl)
EffectDestroy(g, e) == EffectDestroy_FromField(g, e, 1)

\* what the effects do with the calls the engine made in one step
RECURSIVE ApplyCalls(_, _)
ApplyCalls(g, calls) ==
    IF calls = <<>> THEN g
    ELSE LET c == Head(calls)
             g1 == IF c.eff \in Effects /\ c.call = "init" THEN EffectInit(g, c.eff)
                   ELSE IF c.eff \in Effects /\ c.call = "destroy"
                        THEN EffectDestroy(g, c.eff)
                        ELSE g
         IN ApplyCalls(g1, Tail(calls))

\* one engine as its constructor leaves it: no options, device pixel ratio 1
EngineAtRest ==
    /\ EngineInit
    /\ dpr = Frac(1, 1)
    /\ lastOp = Op("new", NoEffect, {}, {})
    /\ canvas.clientWidth = 2

GpuInit ==
    /\ EngineAtRest
    /\ gpu = [handles |-> [e \in Effects |-> [f \in FieldNames(e) |-> NoHandle]],
              objects |-> <<>>]
    /\ construction = Idle
    /\ particleSystem = Idle
    /\ floatingParticles = Idle
    /\ pointer = Idle
    /\ gradientMesh = Idle
    /\ waveEffect = Idle

\* the effects carry out the calls of the step
EffectsReact ==
    /\ gpu' = ApplyCalls(gpu, trace')
    /\ Len(gpu'.objects) <= MaxGlObjects
    /\ UNCHANGED <<construction, particleSystem, floatingParticles, pointer,
                   gradientMesh, waveEffect>>

\* the page calls effect.destroy(gl) itself
GpuEffectDestroy ==
    \E e \in Effects :
        /\ gl # NULL
        /\ gpu' = EffectDestroy(gpu, e)
        /\ trace' = <<>>
        /\ lastOp' = Op("effect.destroy", e, {}, {})
        /\ UNCHANGED <<effects, isRunning, animationId, startTime, lastTime, gl,
                       interactionManager, dpr, canvas, viewport, pending,
                       nextRafId, now, windowListeners, sinceStop>>
        /\ UNCHANGED <<construction, particleSystem, floatingParticles, pointer,
                       gradientMesh, waveEffect>>

GpuNext ==
    \/ AddEffect /\ EffectsReact
    \/ RemoveEffect /\ EffectsReact
    \/ Resize /\ EffectsReact
    \/ Start /\ EffectsReact
    \/ Stop /\ EffectsReact
    \/ Tick /\ EffectsReact
    \/ Destroy /\ EffectsReact
    \/ AdvanceClock /\ EffectsReact
    \/ GpuEffectDestroy

SpecGpu == GpuInit /\ [][GpuNext]_vars

\* C11: once the engine's destroy() has returned, every GPU program and
\* buffer an effect's init created has been deleted exactly once: none was
\* left undeleted and none was deleted twice.
C11_EveryGpuObjectDeletedOnce ==
    lastOp.op = "destroy" =>
        \A i \in 1..Len(gpu.objects) : gpu.objects[i].deleted = 1


(***************************************************************************)
(* new VizFX(options), with the page it runs in.                           *)
(*                                                                         *)
(* construction.page counts what constructors have left in the page:       *)
(* canvases appended to document.body, InteractionManagers listening on a  *)
(* canvas, and 'resize' listeners on the window.                           *)
(***************************************************************************)
MaxNew == 3         \* constructor calls explored

NoError == "no error"

\* options.canvas: a selector string, an HTMLCanvasElement, or omitted
CanvasOptions == {"selector", "element", "omitted"}
\* what document.querySelector(selector) returns
QueryResults == {"null", "div", "canvas"}
\* the context names canvas.getContext answers with a context
ContextNames == {"webgl", "experimental-webgl"}

\* the first part of the constructor: get or create the canvas
getCanvas(page, option, found) ==
    IF option = "selector"
    THEN IF found # "canvas"
         THEN [page |-> page, canvas |-> NULL, error |-> "Canvas element not found"]
         ELSE [page |-> page, canvas |-> "selected", error |-> NoError]
    ELSE IF option = "element"
         THEN [page |-> page, canvas |-> "given", error |-> NoError]
         ELSE [page |-> [page EXCEPT !.appended = @ + 1],
               canvas |-> "created", error |-> NoError]

\* VizFX.initWebGL: getContext('webgl') || getContext('experimental-webgl')
initWebGL(supported) ==
    LET context == IF "webgl" \in supported THEN "webgl"
                   ELSE IF "experimental-webgl" \in supported
                        THEN "experimental-webgl"
                        ELSE NULL
    IN [gl |-> context,
        error |-> IF context = NULL THEN "WebGL not supported" ELSE NoError]

\* the constructor, statement by statement; a throw ends it
constructor(page, option, found, supported) ==
    LET c == getCanvas(page, option, found)
    IN IF c.error # NoError
       THEN [page |-> c.page, canvas |-> NULL, gl |-> NULL, error |-> c.error]
       ELSE LET w == initWebGL(supported)
            IN IF w.error # NoError
               THEN [page |-> c.page, canvas |-> c.canvas, gl |-> NULL,
                     error |-> w.error]
               ELSE \* new InteractionManager(canvas); resize(); addEventListener
                    [page |-> [c.page EXCEPT !.interaction = @ + 1,
                                             !.windowResize = @ + 1],
                     canvas |-> c.canvas, gl |-> w.gl, error |-> NoError]

NewInit ==
    /\ EngineAtRest
    /\ construction = [made |-> 0,
                       page |-> [appended |-> 0, interaction |-> 0,
                                 windowResize |-> 0],
                       option |-> "omitted", found |-> "null", supported |-> {},
                       canvas |-> NULL, gl |-> NULL, error |-> NoError]
    /\ gpu = Idle
    /\ particleSystem = Idle
    /\ floatingParticles = Idle
    /\ pointer = Idle
    /\ gradientMesh = Idle
    /\ waveEffect = Idle

\* the page runs `new VizFX({canvas: option})`
New ==
    \E option \in CanvasOptions, found \in QueryResults,
       supported \in SUBSET ContextNames :
        /\ construction.made < MaxNew
        /\ LET r == constructor(construction.page, option, found, supported)
           IN construction' = [made |-> construction.made + 1,
                               page |-> r.page,
                               option |-> option, found |-> found,
                               supported |-> supported,
                               canvas |-> r.canvas, gl |-> r.gl, error |-> r.error]
        /\ UNCHANGED engineAndHost
        /\ UNCHANGED <<gpu, particleSystem, floatingParticles, pointer, gradientMesh,
                       waveEffect>>

SpecNew == NewInit /\ [][New]_vars

\* C12: a construction whose selector matches no canvas, or that gets no
\* WebGL context, throws, and a construction that throws leaves the page as
\* it found it: no canvas appended to the document, no interaction
\* listeners, no window resize listener.
C12_FailedConstructionLeavesNothing ==
    [][/\ (construction'.option = "selector" /\ construction'.found # "canvas")
            => construction'.error # NoError
       /\ (construction'.supported = {}) => construction'.error # NoError
       /\ construction'.error # NoError => construction'.page = construction.page]_vars


(***************************************************************************)
(* ParticleSystem.                                                         *)
(*                                                                         *)
(* Positions, velocities, sizes and the surface size are exact fractions;  *)
(* life and deltaTime are whole time units.  Every random(min, max) call   *)
(* is given the number u that Math.random() returned to it and yields      *)
(* min + u * (max - min); createParticle makes four such calls (angle,     *)
(* radius, speed, size), so the draws of a particle are four numbers.      *)
(***************************************************************************)
MaxCount == 2       \* largest particle count explored

DeltaTimes == {0, 1, 3}
\* the numbers Math.random() returns
RandomDraws == {Frac(0, 1), Frac(1, 4), Frac(1, 2)}
\* the draws <<angle, radius, speed, size>> a particle is created with, each
\* from RandomDraws: angle 0 with radius and speed in mid range, and a
\* quarter turn with radius 0 and the lowest speed and size
ParticleDraws == {<<Frac(0, 1), Frac(1, 2), Frac(1, 2), Frac(1, 2)>>,
                  <<Frac(1, 4), Frac(0, 1), Frac(0, 1), Frac(0, 1)>>}
Dims == {<<3, 4>>}
EmitterArgs == {<<0, 0>>, <<2, 0>>}
PointerOffsets == {<<2, 4>>}
\* rect.height of canvas.getBoundingClientRect()
RectHeights == {4}
\* setColor is given the colour the system was constructed with
Colors == {"#ffffff"}

random(min, max, u) == FracSum(min, FracTimes(FracSum(max, Minus(min)), u))

Vec2(x, y) == [x |-> x, y |-> y]

\* new ParticleSystem({count, speed: 2, size: 2, lifetime: 2, emitterRadius: 2,
\*                     gravity: new Vec2(0, -1)})
ParticleSystem_constructor(count) ==
    [options |-> [count |-> count, color |-> "#ffffff", size |-> Frac(2, 1),
                  speed |-> Frac(2, 1), lifetime |-> 2,
                  gravity |-> Vec2(Zero, Frac(-1, 1)),
                  emitterPosition |-> Vec2(Zero, Zero),
                  emitterRadius |-> Frac(2, 1), fadeOut |-> TRUE],
     particles |-> <<>>,
     program |-> NoHandle,
     positionBuffer |-> NoHandle,
     width |-> Zero,
     height |-> Zero,
     lastCall |-> Call("new", "particleSystem", count, 0),
     recycled |-> {},             \* slots the last update re-created
     drawn |-> <<>>]              \* vertex data of the render of this step

\* d = <<u1, u2, u3, u4>>: the numbers Math.random() returns to the calls
\* random(0, 2 pi), random(0, emitterRadius), random(speed / 2, speed * 3 / 2)
\* and random(size / 2, size * 3 / 2), in this order.  The angle u1 * 2 pi
\* is a whole number of quarter turns for the draws used.
ParticleSystem_createParticle(ps, d) ==
    LET o == ps.options
        quarter == (4 * d[1].n) \div d[1].d
        cos == Frac(CASE quarter = 0 -> 1 [] quarter = 2 -> -1 [] OTHER -> 0, 1)
        sin == Frac(CASE quarter = 1 -> 1 [] quarter = 3 -> -1 [] OTHER -> 0, 1)
        radius == random(Zero, o.emitterRadius, d[2])
        speed == random(FracTimes(o.speed, Frac(1, 2)),
                        FracTimes(o.speed, Frac(3, 2)), d[3])
    IN [position |-> Vec2(FracSum(o.emitterPosition.x, FracTimes(cos, radius)),
                          FracSum(o.emitterPosition.y, FracTimes(sin, radius))),
        velocity |-> Vec2(FracTimes(cos, speed), FracTimes(sin, speed)),
        life |-> o.lifetime,
        maxLife |-> o.lifetime,
        size |-> random(FracTimes(o.size, Frac(1, 2)),
                        FracTimes(o.size, Frac(3, 2)), d[4])]

\* init(gl): createProgram, gl.createBuffer, initParticles
ParticleSystem_init(ps, draws) ==
    [ps EXCEPT !.program = 1,
               !.positionBuffer = 1,
               !.particles = [i \in 1..ps.options.count |->
                                 ParticleSystem_createParticle(ps, draws[i])]]

ParticleSystem_update_StrictDead(ps, deltaTime, draws) ==
    LET dt == Frac(deltaTime, 1)
        dead(i) == ps.particles[i].life - deltaTime < 0
        step(i) ==
            LET p == ps.particles[i]
                v == Vec2(FracSum(p.velocity.x, FracTimes(ps.options.gravity.x, dt)),
                          FracSum(p.velocity.y, FracTimes(ps.options.gravity.y, dt)))
            IN [p EXCEPT !.life = p.life - deltaTime,
                         !.velocity = v,
                         !.position = Vec2(FracSum(p.position.x, FracTimes(v.x, dt)),
                                           FracSum(p.position.y, FracTimes(v.y, dt)))]
    IN [ps EXCEPT !.particles = [i \in 1..Len(ps.particles) |->
                                    IF dead(i)
                                    THEN ParticleSystem_createParticle(ps, draws[i])
                                    ELSE step(i)],
                  !.recycled = {i \in 1..Len(ps.particles) : dead(i)}]

ParticleSystem_update_ExplicitEuler(ps, deltaTime, draws) ==
    LET dt == Frac(deltaTime, 1)
        dead(i) == ps.particles[i].life - deltaTime <= 0
        step(i) ==
            LET p == ps.particles[i]
                v == Vec2(FracSum(p.velocity.x, FracTimes(ps.options.gravity.x, dt)),
                          FracSum(p.velocity.y, FracTimes(ps.options.gravity.y, dt)))
            IN [p EXCEPT !.life = p.life - deltaTime,
                         !.velocity = v,
                         !.position = Vec2(FracSum(p.position.x, FracTimes(p.velocity.x, dt)),
                                           FracSum(p.position.y, FracTimes(p.velocity.y, dt)))]
    IN [ps EXCEPT !.particles = [i \in 1..Len(ps.particles) |->
                                    IF dead(i)
                                    THEN ParticleSystem_createParticle(ps, draws[i])
                                    ELSE step(i)],
                  !.recycled = {i \in 1..Len(ps.particles) : dead(i)}]

ParticleSystem_update(ps, deltaTime, draws) ==
    LET dt == Frac(deltaTime, 1)
        dead(i) == ps.particles[i].life - deltaTime <= 0
        step(i) ==
            LET p == ps.particles[i]
                v == Vec2(FracSum(p.velocity.x, FracTimes(ps.options.gravity.x, dt)),
                          FracSum(p.velocity.y, FracTimes(ps.options.gravity.y, dt)))
            IN [p EXCEPT !.life = p.life - deltaTime,
                         !.velocity = v,
                         !.position = Vec2(FracSum(p.position.x, FracTimes(v.x, dt)),
                                           FracSum(p.position.y, FracTimes(v.y, dt)))]
    IN [ps EXCEPT !.particles = [i \in 1..Len(ps.particles) |->
                                    IF dead(i)
                                    THEN ParticleSystem_createParticle(ps, draws[i])
                                    ELSE step(i)],
                  !.recycled = {i \in 1..Len(ps.particles) : dead(i)}]

\* a coordinate in clip space: (v / extent) * 2 - 1; dividing by an extent of
\* 0 gives NaN or an infinity
ClipCoord(v, extent) ==
    IF extent.n = 0 THEN "not finite"
    ELSE Frac(2 * v.n * extent.d - extent.n * v.d, extent.n * v.d)

ParticleSystem_render_FlippedY(ps) ==
    IF ps.program = NoHandle \/ ps.positionBuffer = NoHandle
    THEN <<>>
    ELSE [i \in 1..Len(ps.particles) |->
            LET p == ps.particles[i]
            IN [x |-> ClipCoord(p.position.x, ps.width),
                y |-> ClipCoord(FracSum(ps.height, Minus(p.position.y)), ps.height),
                size |-> p.size,
                alpha |-> IF ps.options.fadeOut THEN Frac(p.life, p.maxLife)
                          ELSE Frac(1, 1)]]

\* the vertex data render uploads and draws as points
ParticleSystem_render(ps) ==
    IF ps.program = NoHandle \/ ps.positionBuffer = NoHandle
    THEN <<>>
    ELSE [i \in 1..Len(ps.particles) |->
            LET p == ps.particles[i]
            IN [x |-> ClipCoord(p.position.x, ps.width),
                y |-> ClipCoord(p.position.y, ps.height),
                size |-> p.size,
                alpha |-> IF ps.options.fadeOut THEN Frac(p.life, p.maxLife)
                          ELSE Frac(1, 1)]]

ParticleSystem_resize(ps, width, height) ==
    LET e == ps.options.emitterPosition
    IN [ps EXCEPT !.width = width,
                  !.height = height,
                  !.options.emitterPosition =
                      IF e.x = Zero /\ e.y = Zero
                      THEN Vec2(FracTimes(width, Frac(1, 2)),
                                FracTimes(height, Frac(1, 2)))
                      ELSE e]

ParticleSystem_setCount_NoTruncate(ps, count, draws) ==
    [ps EXCEPT !.options.count = count,
               !.particles =
                   IF Len(ps.particles) < count
                   THEN ps.particles \o
                        [i \in 1..(count - Len(ps.particles)) |->
                            ParticleSystem_createParticle(ps, draws[i])]
                   ELSE ps.particles]

ParticleSystem_setCount_DropFirst(ps, count, draws) ==
    [ps EXCEPT !.options.count = count,
               !.particles =
                   IF Len(ps.particles) < count
                   THEN ps.particles \o
                        [i \in 1..(count - Len(ps.particles)) |->
                            ParticleSystem_createParticle(ps, draws[i])]
                   ELSE SubSeq(ps.particles, Len(ps.particles) - count + 1,
                               Len(ps.particles))]

ParticleSystem_setCount(ps, count, draws) ==
    [ps EXCEPT !.options.count = count,
               !.particles =
                   IF Len(ps.particles) < count
                   THEN ps.particles \o
                        [i \in 1..(count - Len(ps.particles)) |->
                            ParticleSystem_createParticle(ps, draws[i])]
                   ELSE SubSeq(ps.particles, 1, count)]

\* the 'mousemove' listener of the README's "Mouse Interaction" example, for
\* an event at offset (ex, ey) from the top-left corner of the canvas, whose
\* bounding box is rectHeight high.  interaction is what viz.getInteraction()
\* returned when the listener was set up: interaction?.getPointer() is
\* undefined if that was null, and the pointer object otherwise
README_mousemove(ps, interaction, rectHeight, ex, ey) ==
    IF interaction = NULL THEN ps
    ELSE [ps EXCEPT !.options.emitterPosition =
                        Vec2(Frac(ex, 1), Frac(rectHeight - ey, 1))]

\* the variables a call on the particle system leaves alone
psFrame == <<engineAndHost, gpu, construction, floatingParticles, pointer,
             gradientMesh, waveEffect>>

\* the call is recorded, and the ghost fields of earlier steps are cleared
PsCalled(ps, call, a, b) ==
    [ps EXCEPT !.lastCall = Call(call, "particleSystem", a, b),
               !.recycled = IF call = "update" THEN @ ELSE {},
               !.drawn = IF call = "render" THEN @ ELSE <<>>]

PsInit ==
    /\ EngineAtRest
    /\ \E count \in {0, MaxCount} :
           particleSystem = ParticleSystem_constructor(count)
    /\ gpu = Idle
    /\ construction = Idle
    /\ floatingParticles = Idle
    /\ pointer = Idle
    /\ gradientMesh = Idle
    /\ waveEffect = Idle

PsInitEffect ==
    \E draws \in [1..particleSystem.options.count -> ParticleDraws] :
        /\ particleSystem' = PsCalled(ParticleSystem_init(particleSystem, draws),
                                      "init", 0, 0)
        /\ UNCHANGED psFrame

PsUpdate ==
    \E deltaTime \in DeltaTimes :
      \E draws \in [{i \in 1..Len(particleSystem.particles) :
                        particleSystem.particles[i].life <= deltaTime}
                       -> ParticleDraws] :
        /\ particleSystem' =
               PsCalled(ParticleSystem_update(particleSystem, deltaTime, draws),
                        "update", deltaTime, 0)
        /\ UNCHANGED psFrame

PsRender ==
    /\ particleSystem' =
           PsCalled([particleSystem EXCEPT
                        !.drawn = ParticleSystem_render(particleSystem)],
                    "render", 0, 0)
    /\ UNCHANGED psFrame

PsResize ==
    \E d \in Dims :
        /\ particleSystem' =
               PsCalled(ParticleSystem_resize(particleSystem, Frac(d[1], 1),
                                              Frac(d[2], 1)),
                        "resize", d[1], d[2])
        /\ UNCHANGED psFrame

PsSetCount ==
    \E count \in 0..MaxCount :
      \E draws \in [1..(count - Len(particleSystem.particles)) -> ParticleDraws] :
        /\ particleSystem' =
               PsCalled(ParticleSystem_setCount(particleSystem, count, draws),
                        "setCount", count, 0)
        /\ UNCHANGED psFrame

PsSetEmitterPosition ==
    \E e \in EmitterArgs :
        /\ particleSystem' =
               PsCalled([particleSystem EXCEPT
                            !.options.emitterPosition =
                                Vec2(Frac(e[1], 1), Frac(e[2], 1))],
                        "setEmitterPosition", e[1], e[2])
        /\ UNCHANGED psFrame

PsSetColor ==
    \E c \in Colors :
        /\ particleSystem' = PsCalled([particleSystem EXCEPT !.options.color = c],
                                      "setColor", c, 0)
        /\ UNCHANGED psFrame

PsFollowPointer ==
    \E e \in PointerOffsets, rectHeight \in RectHeights :
        /\ particleSystem' =
               PsCalled(README_mousemove(particleSystem, interactionManager,
                                         rectHeight, e[1], e[2]),
                        "mousemove", e[1], e[2])
        /\ UNCHANGED psFrame

\* destroy(gl): deletes the program and the buffer and forgets them; the
\* particles stay
PsDestroy ==
    /\ particleSystem' = PsCalled([particleSystem EXCEPT !.program = NoHandle,
                                                         !.positionBuffer = NoHandle],
                                  "destroy", 0, 0)
    /\ UNCHANGED psFrame

PsNext ==
    \/ PsInitEffect
    \/ PsUpdate
    \/ PsRender
    \/ PsResize
    \/ PsSetCount
    \/ PsSetEmitterPosition
    \/ PsSetColor
    \/ PsFollowPointer
    \/ PsDestroy

SpecPS == PsInit /\ [][PsNext]_vars

PsInitialised == particleSystem.program # NoHandle

\* C13: once init has run, the system holds as many particles as the last
\* setCount asked for, or as the constructor was given if setCount was never
\* called: setCount(n) leaves n particles, and no other call (update, also
\* one that recycles particles, render, resize, setEmitterPosition, setColor)
\* changes the number.
C13_CountIsLastSetCount ==
    [][LET ps == particleSystem
           after == particleSystem'
       IN /\ after.lastCall.call = "setCount" =>
                 /\ after.options.count = after.lastCall.a
                 /\ Len(after.particles) = after.lastCall.a
          /\ after.lastCall.call # "setCount" =>
                 /\ after.options.count = ps.options.count
                 /\ ps.program # NoHandle => Len(after.particles) = Len(ps.particles)
          /\ (after.lastCall.call = "init" /\ ps.lastCall.call = "new") =>
                 Len(after.particles) = ps.lastCall.a
          /\ after.program # NoHandle => Len(after.particles) = after.options.count]_vars

\* an update recycled a particle and the count is still the one of the last
\* setCount, which no constructor call of the model was given
C13_Witness ==
    /\ PsInitialised
    /\ particleSystem.lastCall.call = "update"
    /\ particleSystem.recycled # {}
    /\ Len(particleSystem.particles) = 1
    /\ particleSystem.options.count = 1

\* C14: after every update each particle's life is above 0 and at most its
\* maxLife; a particle whose life minus deltaTime is at most 0 is re-created
\* in that update, in its slot, with life = maxLife = lifetime, and no other
\* particle is; the life of a particle that was not re-created did not grow.
C14_LifeStaysPositive ==
    [][LET ps == particleSystem
           after == particleSystem'
       IN after.lastCall.call = "update" =>
              /\ Len(after.particles) = Len(ps.particles)
              /\ \A i \in 1..Len(after.particles) :
                    /\ after.particles[i].life > 0
                    /\ after.particles[i].life <= after.particles[i].maxLife
                    /\ (i \in after.recycled)
                          <=> (ps.particles[i].life - after.lastCall.a <= 0)
                    /\ i \in after.recycled =>
                          /\ after.particles[i].life = after.options.lifetime
                          /\ after.particles[i].maxLife = after.options.lifetime
                    /\ i \notin after.recycled =>
                          after.particles[i].life <= ps.particles[i].life]_vars

\* one update with a deltaTime above the lifetime recycled every particle
C14_Witness ==
    /\ particleSystem.lastCall.call = "update"
    /\ particleSystem.lastCall.a > particleSystem.options.lifetime
    /\ Len(particleSystem.particles) = MaxCount
    /\ particleSystem.recycled = 1..MaxCount
    /\ \A i \in 1..MaxCount : particleSystem.particles[i].life
                                  = particleSystem.options.lifetime


(***************************************************************************)
(* FloatingParticles.                                                      *)
(*                                                                         *)
(* A seed is the numbers Math.random() returns for one particle of         *)
(* initParticles: for its x, its y and the two components of its velocity. *)
(* Positions, velocities and the surface size are exact fractions.  The    *)
(* render size of a particle is not modelled.                              *)
(***************************************************************************)
MaxParticles == 2   \* particles of the field

FpDims == {<<8, 8>>, <<0, 8>>, <<3, 8>>}

Seeds ==
    {[x |-> Frac(0, 1), y |-> Frac(1, 2), vx |-> Frac(3, 4), vy |-> Frac(1, 2)],
     [x |-> Frac(1, 2), y |-> Frac(3, 4), vx |-> Frac(1, 2), vy |-> Frac(3, 4)],
     [x |-> Frac(0, 1), y |-> Frac(3, 4), vx |-> Frac(0, 1), vy |-> Frac(0, 1)]}

\* new FloatingParticles({count: MaxParticles, speed: 4, connectionDistance: 4})
FloatingParticles_constructor ==
    [options |-> [count |-> MaxParticles, speed |-> Frac(4, 1),
                  connectionDistance |-> Frac(4, 1), showConnections |-> TRUE],
     particles |-> <<>>,
     particleProgram |-> NoHandle,
     lineProgram |-> NoHandle,
     particleBuffer |-> NoHandle,
     lineBuffer |-> NoHandle,
     width |-> Zero,
     height |-> Zero,
     lastCall |-> Call("new", "floatingParticles", 0, 0),
     edges |-> <<>>]              \* the lines of the render of this step

FloatingParticles_initParticles(fp, seeds) ==
    [fp EXCEPT !.particles =
        [i \in 1..fp.options.count |->
            [position |-> Vec2(random(Zero, fp.width, seeds[i].x),
                               random(Zero, fp.height, seeds[i].y)),
             velocity |-> Vec2(random(Minus(fp.options.speed), fp.options.speed,
                                      seeds[i].vx),
                               random(Minus(fp.options.speed), fp.options.speed,
                                      seeds[i].vy))]]]

FloatingParticles_init(fp, seeds) ==
    FloatingParticles_initParticles(
        [fp EXCEPT !.particleProgram = 1, !.lineProgram = 1,
                   !.particleBuffer = 1, !.lineBuffer = 1], seeds)

FloatingParticles_update_Clamp(fp, deltaTime) ==
    LET dt == Frac(deltaTime, 1)
        wrap(v, extent) ==
            IF v.n < 0 THEN Zero
            ELSE IF v.n * extent.d > extent.n * v.d THEN extent ELSE v
    IN [fp EXCEPT !.particles =
           [i \in 1..Len(fp.particles) |->
               LET p == fp.particles[i]
               IN [p EXCEPT !.position =
                      Vec2(wrap(FracSum(p.position.x, FracTimes(p.velocity.x, dt)),
                                fp.width),
                           wrap(FracSum(p.position.y, FracTimes(p.velocity.y, dt)),
                                fp.height))]]]

FloatingParticles_update(fp, deltaTime) ==
    LET dt == Frac(deltaTime, 1)
        wrap(v, extent) ==
            LET v1 == IF v.n < 0 THEN extent ELSE v
            IN IF v1.n * extent.d > extent.n * v1.d THEN Zero ELSE v1
    IN [fp EXCEPT !.particles =
           [i \in 1..Len(fp.particles) |->
               LET p == fp.particles[i]
               IN [p EXCEPT !.position =
                      Vec2(wrap(FracSum(p.position.x, FracTimes(p.velocity.x, dt)),
                                fp.width),
                           wrap(FracSum(p.position.y, FracTimes(p.velocity.y, dt)),
                                fp.height))]]]

\* Vec2.distance: the square root of sq; `root` is its value when it is a
\* fraction (rational), and sq has no fraction as its root otherwise
Vec2_distance(p, q) ==
    LET dx == FracSum(p.x, Minus(q.x))
        dy == FracSum(p.y, Minus(q.y))
        sq == FracSum(FracTimes(dx, dx), FracTimes(dy, dy))
        isSquare(m) == \E r \in 0..m : r * r = m
        sqrt(m) == CHOOSE r \in 0..m : r * r = m
    IN [sq |-> sq,
        rational |-> isSquare(sq.n) /\ isSquare(sq.d),
        root |-> IF isSquare(sq.n) /\ isSquare(sq.d)
                 THEN Frac(sqrt(sq.n), sqrt(sq.d))
                 ELSE Zero]

\* all pairs <<i, j>> of 1..n in the order of the two nested loops
LoopPairs(n) == [k \in 1..(n * n) |-> <<((k - 1) \div n) + 1, ((k - 1) % n) + 1>>]

FloatingParticles_renderConnections_Inclusive(fp) ==
    LET maxDist == fp.options.connectionDistance
        dist(pr) == Vec2_distance(fp.particles[pr[1]].position,
                                  fp.particles[pr[2]].position)
        drawn(pr) == /\ pr[1] < pr[2]
                     /\ dist(pr).sq.n * maxDist.d * maxDist.d
                           <= maxDist.n * maxDist.n * dist(pr).sq.d
        near == SelectSeq(LoopPairs(Len(fp.particles)), drawn)
    IN [k \in 1..Len(near) |->
           [i |-> near[k][1], j |-> near[k][2],
            alpha |-> IF dist(near[k]).rational
                      THEN FracSum(Frac(1, 1),
                                   Minus(Frac(dist(near[k]).root.n * maxDist.d,
                                              dist(near[k]).root.d * maxDist.n)))
                      ELSE [oneMinusRootOf |->
                               Frac(dist(near[k]).sq.n * maxDist.d * maxDist.d,
                                    dist(near[k]).sq.d * maxDist.n * maxDist.n)]]]

\* the lines renderConnections draws: `dist < maxDist` is decided on the
\* squares; alpha = 1 - dist / maxDist is a fraction when dist is one and is
\* kept as 1 - sqrt(sq / maxDist^2) when it is not
FloatingParticles_renderConnections(fp) ==
    LET maxDist == fp.options.connectionDistance
        dist(pr) == Vec2_distance(fp.particles[pr[1]].position,
                                  fp.particles[pr[2]].position)
        drawn(pr) == /\ pr[1] < pr[2]
                     /\ dist(pr).sq.n * maxDist.d * maxDist.d
                           < maxDist.n * maxDist.n * dist(pr).sq.d
        near == SelectSeq(LoopPairs(Len(fp.particles)), drawn)
    IN [k \in 1..Len(near) |->
           [i |-> near[k][1], j |-> near[k][2],
            alpha |-> IF dist(near[k]).rational
                      THEN FracSum(Frac(1, 1),
                                   Minus(Frac(dist(near[k]).root.n * maxDist.d,
                                              dist(near[k]).root.d * maxDist.n)))
                      ELSE [oneMinusRootOf |->
                               Frac(dist(near[k]).sq.n * maxDist.d * maxDist.d,
                                    dist(near[k]).sq.d * maxDist.n * maxDist.n)]]]

FloatingParticles_render(fp) ==
    IF fp.particleProgram = NoHandle \/ fp.particleBuffer = NoHandle
    THEN <<>>
    ELSE IF fp.options.showConnections /\ fp.lineProgram # NoHandle
            /\ fp.lineBuffer # NoHandle
         THEN FloatingParticles_renderConnections(fp)
         ELSE <<>>

\* (x / oldWidth) * width and (y / oldHeight) * height
FloatingParticles_resize(fp, width, height, seeds) ==
    LET sized == [fp EXCEPT !.width = width, !.height = height]
        scale(v, old, new) == Frac(v.n * old.d * new.n, v.d * old.n * new.d)
    IN IF fp.width.n > 0 /\ fp.height.n > 0
       THEN [sized EXCEPT !.particles =
               [i \in 1..Len(fp.particles) |->
                   [fp.particles[i] EXCEPT !.position =
                       Vec2(scale(fp.particles[i].position.x, fp.width, width),
                            scale(fp.particles[i].position.y, fp.height, height))]]]
       ELSE FloatingParticles_initParticles(sized, seeds)

fpFrame == <<engineAndHost, gpu, construction, particleSystem, pointer,
             gradientMesh, waveEffect>>

FpCalled(fp, call, a, b) ==
    [fp EXCEPT !.lastCall = Call(call, "floatingParticles", a, b),
               !.edges = IF call = "render" THEN @ ELSE <<>>]

FpInit ==
    /\ EngineAtRest
    /\ floatingParticles = FloatingParticles_constructor
    /\ gpu = Idle
    /\ construction = Idle
    /\ particleSystem = Idle
    /\ pointer = Idle
    /\ gradientMesh = Idle
    /\ waveEffect = Idle

FpInitEffect ==
    \E seeds \in [1..MaxParticles -> Seeds] :
        /\ floatingParticles' =
               FpCalled(FloatingParticles_init(floatingParticles, seeds), "init", 0, 0)
        /\ UNCHANGED fpFrame

FpUpdate ==
    \E deltaTime \in DeltaTimes :
        /\ floatingParticles' =
               FpCalled(FloatingParticles_update(floatingParticles, deltaTime),
                        "update", deltaTime, 0)
        /\ UNCHANGED fpFrame

FpRender ==
    /\ floatingParticles' =
           FpCalled([floatingParticles EXCEPT
                        !.edges = FloatingParticles_render(floatingParticles)],
                    "render", 0, 0)
    /\ UNCHANGED fpFrame

FpResize ==
    \E d \in FpDims, seeds \in [1..MaxParticles -> Seeds] :
        /\ floatingParticles' =
               FpCalled(FloatingParticles_resize(floatingParticles, Frac(d[1], 1),
                                                 Frac(d[2], 1), seeds),
                        "resize", d[1], d[2])
        /\ UNCHANGED fpFrame

\* destroy(gl): deletes the two programs and the two buffers and forgets them
FpDestroy ==
    /\ floatingParticles' =
           FpCalled([floatingParticles EXCEPT !.particleProgram = NoHandle,
                                              !.lineProgram = NoHandle,
                                              !.particleBuffer = NoHandle,
                                              !.lineBuffer = NoHandle],
                    "destroy", 0, 0)
    /\ UNCHANGED fpFrame

FpNext ==
    \/ FpInitEffect
    \/ FpUpdate
    \/ FpRender
    \/ FpResize
    \/ FpDestroy

SpecFP == FpInit /\ [][FpNext]_vars

\* C15: after every update each particle's x is in [0, width] and its y in
\* [0, height]; a coordinate that the motion took below 0 is at the far edge
\* and one it took above the far edge is at 0, whatever happened to the
\* other coordinate; a coordinate that stayed inside is where the motion
\* took it; the velocity is what it was.
C15_UpdateWraps ==
    [][LET fp == floatingParticles
           after == floatingParticles'
           wrapped(v, extent) == IF v.n < 0 THEN extent
                                 ELSE IF ~FracLeq(v, extent) THEN Zero ELSE v
       IN after.lastCall.call = "update" =>
              /\ Len(after.particles) = Len(fp.particles)
              /\ \A i \in 1..Len(after.particles) :
                    LET p == fp.particles[i]
                        q == after.particles[i]
                        dt == Frac(after.lastCall.a, 1)
                    IN /\ q.position.x.n >= 0 /\ FracLeq(q.position.x, after.width)
                       /\ q.position.y.n >= 0 /\ FracLeq(q.position.y, after.height)
                       /\ q.position.x
                              = wrapped(FracSum(p.position.x,
                                                FracTimes(p.velocity.x, dt)), fp.width)
                       /\ q.position.y
                              = wrapped(FracSum(p.position.y,
                                                FracTimes(p.velocity.y, dt)), fp.height)
                       /\ q.velocity = p.velocity]_vars

\* an update took a particle over the left edge only: it is on the right
\* edge, and its y, which moved too, is inside
C15_Witness ==
    /\ floatingParticles.lastCall.call = "update"
    /\ floatingParticles.width.n > 0
    /\ \E i \in 1..Len(floatingParticles.particles) :
          LET q == floatingParticles.particles[i]
          IN /\ q.velocity.x.n < 0 /\ q.velocity.y.n < 0
             /\ q.position.x = floatingParticles.width
             /\ q.position.y.n > 0
             /\ ~FracLeq(floatingParticles.height, q.position.y)

SqDistance(fp, i, j) ==
    LET dx == FracSum(fp.particles[i].position.x, Minus(fp.particles[j].position.x))
        dy == FracSum(fp.particles[i].position.y, Minus(fp.particles[j].position.y))
    IN FracSum(FracTimes(dx, dx), FracTimes(dy, dy))

\* C16: the lines of a render are one for each pair i < j of particles whose
\* distance, at their positions of that moment, is strictly below
\* connectionDistance, and no other; a line's alpha is 1 - distance /
\* connectionDistance, above 0 and at most 1.
C16_ConnectionsAreNearPairs ==
    LET fp == floatingParticles
        m == fp.options.connectionDistance
    IN (fp.lastCall.call = "render" /\ fp.particleProgram # NoHandle) =>
          /\ {<<fp.edges[k].i, fp.edges[k].j>> : k \in 1..Len(fp.edges)}
                = {pr \in (1..Len(fp.particles)) \X (1..Len(fp.particles)) :
                      /\ pr[1] < pr[2]
                      /\ ~FracLeq(FracTimes(m, m), SqDistance(fp, pr[1], pr[2]))}
          /\ \A k, l \in 1..Len(fp.edges) :
                (fp.edges[k].i = fp.edges[l].i /\ fp.edges[k].j = fp.edges[l].j)
                    => k = l
          /\ \A k \in 1..Len(fp.edges) :
                LET sq == SqDistance(fp, fp.edges[k].i, fp.edges[k].j)
                IN \A d \in {Frac(h, 2) : h \in 0..(2 * m.n)} :
                      FracTimes(d, d) = sq =>
                          /\ fp.edges[k].alpha
                                 = FracSum(Frac(1, 1),
                                           Minus(Frac(d.n * m.d, d.d * m.n)))
                          /\ fp.edges[k].alpha.n > 0
                          /\ fp.edges[k].alpha.n <= fp.edges[k].alpha.d

\* a render drew the one line between two particles at half the connection
\* distance, with alpha 1/2
C16_Witness ==
    /\ floatingParticles.lastCall.call = "render"
    /\ Len(floatingParticles.particles) = 2
    /\ FracTimes(Frac(4, 1), SqDistance(floatingParticles, 1, 2))
           = FracTimes(floatingParticles.options.connectionDistance,
                       floatingParticles.options.connectionDistance)
    /\ Len(floatingParticles.edges) = 1
    /\ floatingParticles.edges[1].alpha = Frac(1, 2)

\* C17: a resize(w, h) that follows a resize(w, h) with the same w and h
\* leaves the stored size and every particle's position as they were.
C17_ResizeIdempotent ==
    [][LET fp == floatingParticles
           after == floatingParticles'
       IN (/\ fp.lastCall.call = "resize"
           /\ after.lastCall = fp.lastCall) =>
              /\ after.width = fp.width
              /\ after.height = fp.height
              /\ Len(after.particles) = Len(fp.particles)
              /\ \A i \in 1..Len(after.particles) :
                    after.particles[i].position = fp.particles[i].position]_vars


(***************************************************************************)
(* Where a vertex of a ParticleSystem lands on the canvas.                 *)
(***************************************************************************)
\* the vertex shader passes a_position on as gl_Position, and the viewport
\* maps clip x = -1 to the left edge, x = 1 to the right edge, y = -1 to the
\* BOTTOM edge and y = 1 to the top edge: the point in logical pixels from
\* the canvas's top-left corner
ScreenPoint(v, width, height) ==
    [fromLeft |-> FracTimes(width, Frac(v.x.d + v.x.n, 2 * v.x.d)),
     fromTop |-> FracTimes(height, Frac(v.y.d - v.y.n, 2 * v.y.d))]

PsDrawn ==
    /\ particleSystem.lastCall.call = "render"
    /\ particleSystem.width.n > 0
    /\ particleSystem.height.n > 0

\* C18 as stated: positions have their origin at the top-left corner and y
\* grows downward, so a particle at (x, y) is drawn x pixels from the left
\* edge and y pixels from the top edge ((x, 0) on the top edge, (x, height)
\* on the bottom edge).
C18_TopLeftOrigin ==
    PsDrawn =>
        \A k \in 1..Len(particleSystem.drawn) :
            ScreenPoint(particleSystem.drawn[k], particleSystem.width,
                        particleSystem.height)
                = [fromLeft |-> particleSystem.particles[k].position.x,
                   fromTop |-> particleSystem.particles[k].position.y]

\* C18, amended: a particle at (x, y) is drawn x pixels from the left edge
\* and y pixels above the BOTTOM edge, that is height - y from the top; and
\* the README's pointer listener, for a pointer ey pixels below the top edge
\* of a canvas whose bounding box is h high, sets the emitter's y to h - ey.
C18_BottomLeftOrigin ==
    /\ PsDrawn =>
          \A k \in 1..Len(particleSystem.drawn) :
              ScreenPoint(particleSystem.drawn[k], particleSystem.width,
                          particleSystem.height)
                  = [fromLeft |-> particleSystem.particles[k].position.x,
                     fromTop |-> FracSum(particleSystem.height,
                                         Minus(particleSystem.particles[k].position.y))]
    /\ particleSystem.lastCall.call = "mousemove" =>
          \E h \in RectHeights :
              particleSystem.options.emitterPosition
                  = Vec2(Frac(particleSystem.lastCall.a, 1),
                         Frac(h - particleSystem.lastCall.b, 1))

\* a particle emitted at an emitter position (x, 0), x > 0, is drawn on the
\* bottom edge of the canvas
C18_Witness ==
    /\ PsDrawn
    /\ particleSystem.options.emitterPosition.x.n > 0
    /\ particleSystem.options.emitterPosition.y = Zero
    /\ \E k \in 1..Len(particleSystem.drawn) :
          /\ particleSystem.particles[k].position
                = particleSystem.options.emitterPosition
          /\ ScreenPoint(particleSystem.drawn[k], particleSystem.width,
                         particleSystem.height).fromTop
                = particleSystem.height


(***************************************************************************)
(* InteractionManager.                                                     *)
(*                                                                         *)
(* pointer holds the manager's fields, the bounding rectangle of its       *)
(* canvas and the value of Date.now().  Every touch event of the model has *)
(* one touch; touchend reports none.                                       *)
(***************************************************************************)
\* clientX, clientY of the events: inside the canvas, and one beyond its
\* right edge
ClientPoints == {<<1, 1>>, <<3, 5>>, <<7, 3>>}

CanvasRect == [left |-> 1, top |-> 1, width |-> 4, height |-> 4]

InteractionManager_constructor(rect, dateNow) ==
    [position |-> Vec2(0, 0),
     normalized |-> Vec2(Zero, Zero),
     velocity |-> Vec2(Zero, Zero),
     isDown |-> FALSE,
     lastPosition |-> Vec2(0, 0),
     lastTime |-> dateNow,
     rect |-> rect,
     dateNow |-> dateNow,
     lastEvent |-> Call("new", "canvas", 0, 0)]

handleMove(im, e) ==
    LET x == e[1] - im.rect.left
        y == e[2] - im.rect.top
        elapsed == im.dateNow - im.lastTime
        dt == IF elapsed > 1 THEN elapsed ELSE 1        \* milliseconds
    IN [im EXCEPT !.lastPosition = im.position,
                  !.position = Vec2(x, y),
                  !.normalized = Vec2(Frac(2 * x - im.rect.width, im.rect.width),
                                      Frac(im.rect.height - 2 * y, im.rect.height)),
                  !.lastTime = im.dateNow,
                  !.velocity = Vec2(Frac((x - im.position.x) * MsPerSecond, dt),
                                    Frac((y - im.position.y) * MsPerSecond, dt))]

handleDown(im) == [im EXCEPT !.isDown = TRUE]

handleUp_KeepsVelocity(im) == [im EXCEPT !.isDown = FALSE]

handleUp(im) == [im EXCEPT !.isDown = FALSE, !.velocity = Vec2(Zero, Zero)]

\* the listeners setupListeners registers; touches is the event's touch list
setupListeners(im, type, e, touches) ==
    CASE type = "mousemove" -> handleMove(im, e)
      [] type = "mousedown" -> handleDown(im)
      [] type = "mouseup" -> handleUp(im)
      [] type = "mouseleave" -> handleUp(im)
      [] type = "touchmove" ->
             IF Len(touches) > 0 THEN handleMove(im, touches[1]) ELSE im
      [] type = "touchstart" ->
             IF Len(touches) > 0 THEN handleDown(handleMove(im, touches[1])) ELSE im
      [] type = "touchend" -> handleUp(im)

PointerInit ==
    /\ EngineAtRest
    /\ pointer = InteractionManager_constructor(CanvasRect, 0)
    /\ gpu = Idle
    /\ construction = Idle
    /\ particleSystem = Idle
    /\ floatingParticles = Idle
    /\ gradientMesh = Idle
    /\ waveEffect = Idle

\* the canvas dispatches an event at the client point e
PointerEvent(type, e, touches) ==
    /\ pointer' = [setupListeners(pointer, type, e, touches)
                      EXCEPT !.lastEvent = Call(type, "canvas", e[1], e[2])]
    /\ UNCHANGED <<engineAndHost, gpu, construction, particleSystem,
                   floatingParticles, gradientMesh, waveEffect>>

\* Date.now() advances
PointerClock ==
    /\ pointer.dateNow < MaxTime
    /\ pointer' = [pointer EXCEPT !.dateNow = @ + 1,
                                  !.lastEvent = Call("clock", "canvas", 0, 0)]
    /\ UNCHANGED <<engineAndHost, gpu, construction, particleSystem,
                   floatingParticles, gradientMesh, waveEffect>>

\* the client points on the canvas: a mouse event and the start of a touch are
\* dispatched to the canvas only there; the moves of a touch that started on
\* the canvas keep coming to it wherever the finger goes
OnCanvas ==
    {e \in ClientPoints :
        /\ CanvasRect.left <= e[1] /\ e[1] <= CanvasRect.left + CanvasRect.width
        /\ CanvasRect.top <= e[2] /\ e[2] <= CanvasRect.top + CanvasRect.height}

PointerNext ==
    \/ \E e \in OnCanvas : PointerEvent("mousemove", e, <<>>)
    \/ \E e \in OnCanvas : PointerEvent("mousedown", e, <<>>)
    \/ \E e \in OnCanvas : PointerEvent("mouseup", e, <<>>)
    \/ \E e \in OnCanvas : PointerEvent("mouseleave", e, <<>>)
    \/ \E e \in ClientPoints : PointerEvent("touchmove", e, <<e>>)
    \/ \E e \in OnCanvas : PointerEvent("touchstart", e, <<e>>)
    \/ \E e \in ClientPoints : PointerEvent("touchend", e, <<>>)
    \/ PointerClock

SpecPointer == PointerInit /\ [][PointerNext]_vars

Presses == {"mousedown", "touchstart"}
ReleasesAndLeaves == {"mouseup", "touchend", "mouseleave"}

\* C19 as stated: a press sets the pressed flag, a release or a leave clears
\* it and zeroes the velocity, none of the three changes the position or the
\* normalized position, and no other event changes the flag (so the flag is
\* true iff the last press, release or leave was a press).
C19_PressReleaseLeave ==
    [][LET type == pointer'.lastEvent.call
       IN /\ type \in Presses => pointer'.isDown
          /\ type \in ReleasesAndLeaves =>
                 ~pointer'.isDown /\ pointer'.velocity = Vec2(Zero, Zero)
          /\ type \in Presses \cup ReleasesAndLeaves =>
                 /\ pointer'.position = pointer.position
                 /\ pointer'.normalized = pointer.normalized
          /\ type \notin Presses \cup ReleasesAndLeaves =>
                 pointer'.isDown = pointer.isDown]_vars

\* C19, amended: as stated for the mouse press, the releases and the leave;
\* a touch press first moves the pointer to the touch, as a move to that
\* point does, and then sets the flag.
C19_PressReleaseLeaveTouchMoves ==
    [][LET type == pointer'.lastEvent.call
           e == <<pointer'.lastEvent.a, pointer'.lastEvent.b>>
       IN /\ type \in Presses => pointer'.isDown
          /\ type \in ReleasesAndLeaves =>
                 ~pointer'.isDown /\ pointer'.velocity = Vec2(Zero, Zero)
          /\ type \in {"mousedown"} \cup ReleasesAndLeaves =>
                 /\ pointer'.position = pointer.position
                 /\ pointer'.normalized = pointer.normalized
          /\ type = "mousedown" => pointer'.velocity = pointer.velocity
          /\ type = "touchstart" =>
                 /\ pointer'.position = handleMove(pointer, e).position
                 /\ pointer'.position = Vec2(e[1] - pointer.rect.left,
                                             e[2] - pointer.rect.top)
                 /\ pointer'.normalized = handleMove(pointer, e).normalized
                 /\ pointer'.velocity = handleMove(pointer, e).velocity
          /\ type \notin Presses \cup ReleasesAndLeaves =>
                 pointer'.isDown = pointer.isDown]_vars

\* a touch press moved the pointer and set the flag
C19_Witness ==
    /\ pointer.lastEvent.call = "touchstart"
    /\ pointer.isDown
    /\ pointer.position # pointer.lastPosition
    /\ pointer.velocity # Vec2(Zero, Zero)


(***************************************************************************)
(* GradientMesh.                                                           *)
(*                                                                         *)
(* A colour string is the sequence of its characters.                      *)
(***************************************************************************)
MaxColors == 5      \* longest colour list explored

\* the colours of the lists: '#ff0000', '00FF00' and '#fff'
Palette == {<<"#", "f", "f", "0", "0", "0", "0">>,
            <<"0", "0", "F", "F", "0", "0">>,
            <<"#", "f", "f", "f">>}

DefaultColors ==
    <<<<"#", "6", "6", "7", "e", "e", "a">>,
      <<"#", "7", "6", "4", "b", "a", "2">>,
      <<"#", "f", "0", "9", "3", "f", "b">>,
      <<"#", "4", "f", "a", "c", "f", "e">>>>

\* String(undefined), what the regular expression of hexToRgb is given for
\* the element of an empty list
Undefined == <<"u", "n", "d", "e", "f", "i", "n", "e", "d">>

LowerHexDigits ==
    <<"0", "1", "2", "3", "4", "5", "6", "7", "8", "9", "a", "b", "c", "d", "e", "f">>
UpperHexDigits ==
    <<"0", "1", "2", "3", "4", "5", "6", "7", "8", "9", "A", "B", "C", "D", "E", "F">>

\* parseInt(c, 16) of one character, -1 if it is no hexadecimal digit
HexValue(c) ==
    IF \E i \in 1..Len(LowerHexDigits) : LowerHexDigits[i] = c
    THEN (CHOOSE i \in 1..Len(LowerHexDigits) : LowerHexDigits[i] = c) - 1
    ELSE IF \E i \in 1..Len(UpperHexDigits) : UpperHexDigits[i] = c
         THEN (CHOOSE i \in 1..Len(UpperHexDigits) : UpperHexDigits[i] = c) - 1
         ELSE -1

\* /^#?([a-f\d]{2})([a-f\d]{2})([a-f\d]{2})$/i, each pair / 255; white if
\* the string does not match
hexToRgb(hex) ==
    LET digits == IF Len(hex) > 0 /\ hex[1] = "#" THEN Tail(hex) ELSE hex
        byte(i) == 16 * HexValue(digits[2 * i - 1]) + HexValue(digits[2 * i])
    IN IF Len(digits) = 6 /\ \A i \in 1..6 : HexValue(digits[i]) >= 0
       THEN [r |-> Frac(byte(1), 255), g |-> Frac(byte(2), 255),
             b |-> Frac(byte(3), 255)]
       ELSE [r |-> Frac(1, 1), g |-> Frac(1, 1), b |-> Frac(1, 1)]

\* new GradientMesh({colors}); colors = {} stands for an omitted option
GradientMesh_constructor(colors) ==
    [options |-> [colors |-> IF colors = {} THEN DefaultColors
                             ELSE CHOOSE c \in colors : TRUE,
                  speed |-> Frac(1, 2), complexity |-> 3],
     configured |-> IF colors = {} THEN DefaultColors
                    ELSE CHOOSE c \in colors : TRUE,   \* the list as configured
     program |-> NoHandle,
     quadBuffer |-> NoHandle,
     width |-> 0,
     height |-> 0,
     lastCall |-> Call("new", "gradientMesh", 0, 0),
     uniforms |-> <<>>]           \* the uniforms of the render of this step

\* colors.slice(0, 4), then `while (colors.length < 4) colors.push(last)`
RECURSIVE PadToFour(_)
PadToFour(colors) ==
    IF Len(colors) >= 4 THEN colors
    ELSE PadToFour(Append(colors, IF Len(colors) = 0 THEN Undefined
                                  ELSE colors[Len(colors)]))

GradientMesh_render_PadWithFirst(gm, perfNow) ==
    IF gm.program = NoHandle \/ gm.quadBuffer = NoHandle
    THEN gm
    ELSE LET k == Len(gm.options.colors)
             colors == [i \in 1..4 |-> IF i <= k THEN gm.options.colors[i]
                                       ELSE IF k = 0 THEN Undefined
                                            ELSE gm.options.colors[1]]
         IN [gm EXCEPT !.uniforms =
                <<[u_time |-> Seconds(perfNow),
                   u_resolution |-> <<gm.width, gm.height>>,
                   u_speed |-> gm.options.speed,
                   u_complexity |-> gm.options.complexity,
                   u_color |-> [i \in 1..4 |-> hexToRgb(colors[i])]]>>]

\* render: the uniforms it sets; the slice is a copy, options.colors stays
GradientMesh_render(gm, perfNow) ==
    IF gm.program = NoHandle \/ gm.quadBuffer = NoHandle
    THEN gm
    ELSE LET colors == PadToFour(SubSeq(gm.options.colors, 1,
                                        IF Len(gm.options.colors) < 4
                                        THEN Len(gm.options.colors) ELSE 4))
         IN [gm EXCEPT !.uniforms =
                <<[u_time |-> Seconds(perfNow),
                   u_resolution |-> <<gm.width, gm.height>>,
                   u_speed |-> gm.options.speed,
                   u_complexity |-> gm.options.complexity,
                   u_color |-> [i \in 1..4 |-> hexToRgb(colors[i])]]>>]

RECURSIVE ListsUpTo(_)
ListsUpTo(n) ==
    IF n = 0 THEN {<<>>}
    ELSE ListsUpTo(n - 1)
         \cup {Append(l, c) : l \in {m \in ListsUpTo(n - 1) : Len(m) = n - 1},
                              c \in Palette}

GmCalled(gm, call, a, b) ==
    [gm EXCEPT !.lastCall = Call(call, "gradientMesh", a, b),
               !.uniforms = IF call = "render" THEN @ ELSE <<>>]

gmFrame == <<engineAndHost, gpu, construction, particleSystem, floatingParticles,
             pointer, waveEffect>>

GmInit ==
    /\ EngineAtRest
    /\ \E colors \in {{}} \cup {{l} : l \in ListsUpTo(MaxColors)} :
           gradientMesh = GradientMesh_constructor(colors)
    /\ gpu = Idle
    /\ construction = Idle
    /\ particleSystem = Idle
    /\ floatingParticles = Idle
    /\ pointer = Idle
    /\ waveEffect = Idle

\* init(gl): createProgram and createQuad
GmInitEffect ==
    /\ gradientMesh' = GmCalled([gradientMesh EXCEPT !.program = 1, !.quadBuffer = 1],
                                "init", 0, 0)
    /\ UNCHANGED gmFrame

\* update(time, deltaTime) does nothing
GmUpdate ==
    \E deltaTime \in DeltaTimes :
        /\ gradientMesh' = GmCalled(gradientMesh, "update", deltaTime, 0)
        /\ UNCHANGED gmFrame

GmRender ==
    /\ gradientMesh' = GmCalled(GradientMesh_render(gradientMesh, now), "render", 0, 0)
    /\ UNCHANGED gmFrame

GmResize ==
    \E d \in Dims :
        /\ gradientMesh' = GmCalled([gradientMesh EXCEPT !.width = d[1],
                                                         !.height = d[2]],
                                    "resize", d[1], d[2])
        /\ UNCHANGED gmFrame

\* destroy(gl): deletes the program and the buffer and forgets them
GmDestroy ==
    /\ gradientMesh' = GmCalled([gradientMesh EXCEPT !.program = NoHandle,
                                                     !.quadBuffer = NoHandle],
                                "destroy", 0, 0)
    /\ UNCHANGED gmFrame

GmNext ==
    \/ GmInitEffect
    \/ GmUpdate
    \/ GmRender
    \/ GmResize
    \/ GmDestroy

SpecGM == GmInit /\ [][GmNext]_vars

GmRendered ==
    /\ gradientMesh.lastCall.call = "render"
    /\ gradientMesh.program # NoHandle

\* C20: with k configured colours, 1 <= k < 4, render sends the k colours to
\* slots 1..k and the last of them to slots k+1..4; with 4 or more it sends
\* the first four; the configured list is never changed.
C20_ColorSlots ==
    /\ gradientMesh.options.colors = gradientMesh.configured
    /\ (GmRendered /\ Len(gradientMesh.configured) >= 1) =>
          /\ Len(gradientMesh.uniforms) = 1
          /\ LET k == Len(gradientMesh.configured)
             IN \A i \in 1..4 :
                   gradientMesh.uniforms[1].u_color[i]
                       = hexToRgb(gradientMesh.configured[IF i <= k THEN i ELSE k])

\* a render of a mesh with two colours that differ: slots 1 and 2 differ and
\* slots 3 and 4 carry the second colour
C20_Witness ==
    /\ GmRendered
    /\ Len(gradientMesh.configured) = 2
    /\ Len(gradientMesh.uniforms) = 1
    /\ LET u == gradientMesh.uniforms[1].u_color
       IN /\ u[1] # u[2]
          /\ u[3] = u[2]
          /\ u[4] = u[2]
          /\ u[2] = hexToRgb(gradientMesh.configured[2])


(***************************************************************************)
(* ParticleSystem: emitter position, setCount and integration.             *)
(***************************************************************************)
\* C21: a resize changes the emitter position only if it is the first resize
\* of the system (its size is still 0 x 0), the position is (0, 0) and the
\* caller has not just set it; it then becomes (width / 2, height / 2).  A
\* later resize, and a resize that follows setEmitterPosition, also
\* setEmitterPosition(0, 0), leaves it as it is.
C21_ResizeCentresOnlyOnce ==
    [][LET ps == particleSystem
           after == particleSystem'
           first == ps.width = Zero /\ ps.height = Zero
           e == ps.options.emitterPosition
       IN after.lastCall.call = "resize" =>
              /\ ps.lastCall.call \in {"setEmitterPosition", "mousemove"} =>
                     after.options.emitterPosition = e
              /\ ~first => after.options.emitterPosition = e
              /\ e # Vec2(Zero, Zero) => after.options.emitterPosition = e
              /\ (first /\ e = Vec2(Zero, Zero)
                    /\ ps.lastCall.call \notin {"setEmitterPosition", "mousemove"}) =>
                     after.options.emitterPosition
                         = Vec2(Frac(after.lastCall.a, 2), Frac(after.lastCall.b, 2))]_vars


\* C22: setCount(n) on an initialised system of m particles appends n - m
\* newly created particles (life = maxLife = lifetime, placed by
\* createParticle around the emitter) after the existing ones when n > m, and
\* removes the last m - n when n < m; the first min(m, n) particles stay in
\* their slots with the same position, velocity, life and size, and
\* setCount(m) changes neither the particles nor the options.
C22_SetCountKeepsPrefix ==
    [][LET ps == particleSystem
           after == particleSystem'
           m == Len(ps.particles)
           n == after.lastCall.a
           min == IF m < n THEN m ELSE n
       IN (PsInitialised /\ after.lastCall.call = "setCount") =>
              /\ Len(after.particles) = n
              /\ \A i \in 1..min : after.particles[i] = ps.particles[i]
              /\ \A i \in (m + 1)..n :
                    \E d \in ParticleDraws :
                        after.particles[i] = ParticleSystem_createParticle(ps, d)
              /\ n = m => /\ after.particles = ps.particles
                          /\ after.options = ps.options]_vars

\* setCount(1) has just cut a system of two different particles down to the
\* first one, which an update had moved before
C22_Witness ==
    /\ PsInitialised
    /\ particleSystem.lastCall.call = "setCount"
    /\ particleSystem.lastCall.a = 1
    /\ Len(particleSystem.particles) = 1
    /\ particleSystem.particles[1].life < particleSystem.particles[1].maxLife
    /\ particleSystem.particles[1].velocity.x.n > 0


\* C24: in an update, a particle whose life minus deltaTime stays above 0
\* gets velocity' = velocity + gravity * deltaTime and then
\* position' = position + velocity' * deltaTime (the new velocity).  A
\* particle that is recycled in the update is as createParticle made it, not
\* moved by this update, and lies within emitterRadius of the emitter
\* position of that moment.
C24_SemiImplicitEuler ==
    [][LET ps == particleSystem
           after == particleSystem'
           dt == after.lastCall.a
           t == Frac(dt, 1)
           g == ps.options.gravity
           e == ps.options.emitterPosition
           r == ps.options.emitterRadius
       IN after.lastCall.call = "update" =>
            \A i \in 1..Len(ps.particles) :
               LET p == ps.particles[i]
                   q == after.particles[i]
               IN /\ p.life - dt > 0 =>
                        /\ q.velocity = Vec2(FracSum(p.velocity.x, FracTimes(g.x, t)),
                                             FracSum(p.velocity.y, FracTimes(g.y, t)))
                        /\ q.position =
                               Vec2(FracSum(p.position.x, FracTimes(q.velocity.x, t)),
                                    FracSum(p.position.y, FracTimes(q.velocity.y, t)))
                  /\ p.life - dt <= 0 =>
                        /\ i \in after.recycled
                        /\ \E d \in ParticleDraws :
                               q = ParticleSystem_createParticle(ps, d)
                        /\ LET dx == FracSum(q.position.x, Minus(e.x))
                               dy == FracSum(q.position.y, Minus(e.y))
                           IN FracLeq(FracSum(FracTimes(dx, dx), FracTimes(dy, dy)),
                                      FracTimes(r, r))]_vars

\* an update of one time unit has recycled the first particle and moved the
\* second, which keeps one unit of life
C24_Witness ==
    /\ particleSystem.lastCall.call = "update"
    /\ particleSystem.lastCall.a = 1
    /\ Len(particleSystem.particles) = 2
    /\ particleSystem.recycled = {1}
    /\ particleSystem.particles[2].life = 1
    /\ particleSystem.particles[2].velocity.y = Frac(-1, 1)


(***************************************************************************)
(* The shader effects under the engine.                                    *)
(*                                                                         *)
(* In this specification the effect e1 is a GradientMesh and the effect e2 *)
(* a WaveEffect: the calls the engine makes in a step (trace') are carried *)
(* out by the two objects, at the clock reading of the step.               *)
(***************************************************************************)
\* new WaveEffect(): amplitude 0.1, frequency 3.0, speed 1.0
WaveEffect_constructor ==
    [options |-> [amplitude |-> Frac(1, 10), frequency |-> 3, speed |-> 1,
                  color1 |-> <<"#", "6", "3", "6", "6", "f", "1">>,
                  color2 |-> <<"#", "8", "b", "5", "c", "f", "6">>],
     program |-> NoHandle,
     quadBuffer |-> NoHandle,
     width |-> 0,
     height |-> 0,
     lastCall |-> Call("new", "waveEffect", 0, 0),
     uniforms |-> <<>>]           \* the uniforms of the render of this step

WaveEffect_render(we, perfNow) ==
    IF we.program = NoHandle \/ we.quadBuffer = NoHandle
    THEN we
    ELSE [we EXCEPT !.uniforms =
             <<[u_time |-> Seconds(perfNow),
                u_resolution |-> <<we.width, we.height>>,
                u_amplitude |-> we.options.amplitude,
                u_frequency |-> we.options.frequency,
                u_speed |-> we.options.speed,
                u_color1 |-> hexToRgb(we.options.color1),
                u_color2 |-> hexToRgb(we.options.color2)]>>]

\* one call c of the engine on the GradientMesh: init, update (a no-op),
\* render, resize or destroy
GradientMesh_receive(gm, c, perfNow) ==
    LET done ==
          CASE c.call = "init" -> [gm EXCEPT !.program = 1, !.quadBuffer = 1]
            [] c.call = "update" -> gm
            [] c.call = "render" -> GradientMesh_render(gm, perfNow)
            [] c.call = "resize" -> [gm EXCEPT !.width = c.a, !.height = c.b]
            [] c.call = "destroy" -> [gm EXCEPT !.program = NoHandle,
                                                !.quadBuffer = NoHandle]
    IN GmCalled(done, c.call, c.a, c.b)

\* one call c of the engine on the WaveEffect
WaveEffect_receive(we, c, perfNow) ==
    LET done ==
          CASE c.call = "init" -> [we EXCEPT !.program = 1, !.quadBuffer = 1]
            [] c.call = "update" -> we
            [] c.call = "render" -> WaveEffect_render(we, perfNow)
            [] c.call = "resize" -> [we EXCEPT !.width = c.a, !.height = c.b]
            [] c.call = "destroy" -> [we EXCEPT !.program = NoHandle,
                                                !.quadBuffer = NoHandle]
    IN [done EXCEPT !.lastCall = Call(c.call, "waveEffect", c.a, c.b),
                    !.uniforms = IF c.call = "render" THEN @ ELSE <<>>]

\* the calls of a step that go to the effect eff, carried out in order;
\* reads[i] is what performance.now() returns while call i runs
RECURSIVE ShaderCalls(_, _, _, _)
ShaderCalls(obj, eff, calls, reads) ==
    IF calls = <<>> THEN obj
    ELSE LET c == Head(calls)
             next == IF c.eff # eff THEN obj
                     ELSE IF eff = "e1"
                          THEN GradientMesh_receive(obj, c, Head(reads))
                          ELSE WaveEffect_receive(obj, c, Head(reads))
         IN ShaderCalls(next, eff, Tail(calls), Tail(reads))

ShaderInit ==
    /\ EngineAtRest
    /\ gradientMesh = GradientMesh_constructor({})
    /\ waveEffect = WaveEffect_constructor
    /\ gpu = Idle
    /\ construction = Idle
    /\ particleSystem = Idle
    /\ floatingParticles = Idle
    /\ pointer = Idle

\* the two effects carry out the calls of the step.  Each render reads
\* performance.now() itself, after animate has: the clock stands at `first`
\* when the calls begin and at now' when the step ends, and it can move on
\* between any two calls, so the readings of the calls are any nondecreasing
\* sequence between the two.
ShadersReact(first) ==
    /\ \E reads \in [1..Len(trace') -> first..now'] :
          /\ \A i \in 1..(Len(trace') - 1) : reads[i] <= reads[i + 1]
          /\ gradientMesh' = ShaderCalls(gradientMesh, "e1", trace', reads)
          /\ waveEffect' = ShaderCalls(waveEffect, "e2", trace', reads)
    /\ UNCHANGED <<gpu, construction, particleSystem, floatingParticles, pointer>>

ShaderNext ==
    \/ AddEffect /\ ShadersReact(now)
    \/ RemoveEffect /\ ShadersReact(now)
    \/ Resize /\ ShadersReact(now)
    \/ \E clock \in ClockReads :
          \E after \in clock..MaxTime :
              StartUntil(clock, after) /\ ShadersReact(clock)
    \/ Stop /\ ShadersReact(now)
    \/ \E after \in now..MaxTime :
          TickUntil(after) /\ ShadersReact(now)
    \/ Destroy /\ ShadersReact(now)
    \/ AdvanceClock /\ ShadersReact(now')

SpecShaders == ShaderInit /\ [][ShaderNext]_vars

\* the elapsed times the engine passed to update in the frame of this step
FrameTimes == {trace[i].a : i \in {j \in 1..Len(trace) : trace[j].call = "update"}}

\* C23: in a frame, the u_time uniform a WaveEffect or a GradientMesh sends
\* to its shader is the `time` the engine passed to update in that frame
\* (seconds since start()), and the uniforms of the frame are determined by
\* that time, the logical size and the configured parameters.
C23_ShaderTimeIsEngineTime ==
    FrameRan =>
        \A t \in FrameTimes :
            /\ ("e1" \in Range(effects) /\ gradientMesh.uniforms # <<>>) =>
                   /\ gradientMesh.uniforms[1].u_time = t
                   /\ gradientMesh.uniforms[1].u_resolution
                          = <<gradientMesh.width, gradientMesh.height>>
            /\ ("e2" \in Range(effects) /\ waveEffect.uniforms # <<>>) =>
                   /\ waveEffect.uniforms[1].u_time = t
                   /\ waveEffect.uniforms[1].u_resolution
                          = <<waveEffect.width, waveEffect.height>>


(***************************************************************************)
(* InteractionManager: the normalized position.                            *)
(***************************************************************************)
\* C25: after every mouse or touch move the normalized position has both
\* components in [-1, 1], also for a touch move outside the canvas box, and
\* is the position scaled to the box with the vertical axis flipped: the left
\* edge gives -1, the right edge +1, the top edge +1, the bottom edge -1.
C25_NormalizedInUnitSquare ==
    pointer.lastEvent.call \in {"mousemove", "touchmove", "touchstart"} =>
        LET n == pointer.normalized
            r == pointer.rect
        IN /\ -n.x.d <= n.x.n /\ n.x.n <= n.x.d
           /\ -n.y.d <= n.y.n /\ n.y.n <= n.y.d
           /\ pointer.position.x = 0 => n.x = Frac(-1, 1)
           /\ pointer.position.x = r.width => n.x = Frac(1, 1)
           /\ pointer.position.y = 0 => n.y = Frac(1, 1)
           /\ pointer.position.y = r.height => n.y = Frac(-1, 1)


(***************************************************************************)
(* The frame loop with effects that throw.                                 *)
(*                                                                         *)
(* An exception raised by effect.update or effect.render leaves animate    *)
(* (and start, when the frame is the one start runs) at the throwing call: *)
(* the statements before the loop have been executed, the calls after the  *)
(* throwing one are not made.                                              *)
(***************************************************************************)
\* animate in which call number k of the frame (an update or a render) throws
animateThrows_RegisterLast(running, began, last, pend, clock, k) ==
    LET f == animate(running, began, last, pend, clock)
    IN [f EXCEPT !.animationId = animationId,
                 !.pending = pend,
                 !.nextRafId = nextRafId,
                 !.calls = SubSeq(f.calls, 1, k)]

animateThrows(running, began, last, pend, clock, k) ==
    LET f == animate(running, began, last, pend, clock)
    IN [f EXCEPT !.calls = SubSeq(f.calls, 1, k)]

\* start() on a stopped engine, whose first frame throws at call k
StartThrows ==
    \E k \in 2..(1 + 2 * Len(effects)), clock \in ClockReads :
        /\ ~isRunning
        /\ nextRafId <= MaxRaf
        /\ now' = clock
        /\ LET f == animateThrows(TRUE, now, now, pending, clock, k)
           IN /\ isRunning' = TRUE
              /\ startTime' = now
              /\ lastTime' = f.lastTime
              /\ animationId' = f.animationId
              /\ pending' = f.pending
              /\ nextRafId' = f.nextRafId
              /\ trace' = f.calls
        /\ lastOp' = Op("start throws", NoEffect, {}, {})
        /\ sinceStop' = FALSE
        /\ UNCHANGED <<effects, gl, interactionManager, dpr, canvas, viewport,
                       windowListeners>>

\* a frame notification whose frame throws at call k
TickThrows ==
    \E id \in pending, k \in 2..(1 + 2 * Len(effects)) :
        /\ isRunning
        /\ nextRafId <= MaxRaf
        /\ LET f == animateThrows(isRunning, startTime, lastTime, pending \ {id},
                                   now, k)
           IN /\ animationId' = f.animationId
              /\ pending' = f.pending
              /\ nextRafId' = f.nextRafId
              /\ lastTime' = f.lastTime
              /\ trace' = f.calls
        /\ lastOp' = Op("tick throws", NoEffect, {}, {})
        /\ UNCHANGED <<effects, isRunning, startTime, gl, interactionManager, dpr,
                       canvas, viewport, now, windowListeners, sinceStop>>

LoopInit == EngineAtRest /\ ObjectsIdle

LoopNext ==
    \/ Start /\ UNCHANGED objectVars
    \/ Stop /\ UNCHANGED objectVars
    \/ AddEffect /\ UNCHANGED objectVars
    \/ RemoveEffect /\ UNCHANGED objectVars
    \/ Destroy /\ UNCHANGED objectVars
    \/ Tick /\ UNCHANGED objectVars
    \/ AdvanceClock /\ UNCHANGED objectVars
    \/ StartThrows /\ UNCHANGED objectVars
    \/ TickThrows /\ UNCHANGED objectVars

SpecLoop == LoopInit /\ [][LoopNext]_vars

\* C26: between operations a frame callback is pending iff the engine is
\* running, and then exactly one, the one animationId names; a tick of a
\* running engine has registered a new callback by the time it calls the
\* effects, so a callback is pending after every tick of an engine that was
\* not stopped or destroyed, also after a tick in which an effect threw.
C26_LoopNeverStalls ==
    /\ isRunning <=> Cardinality(pending) = 1
    /\ ~isRunning => pending = {}
    /\ isRunning => pending = {animationId}
    /\ lastOp.op \in {"tick", "tick throws", "start throws"} =>
           /\ isRunning
           /\ pending = {nextRafId - 1}

\* a frame in which the update of the first of two effects threw: the calls
\* stop there and the next callback is pending
C26_Witness ==
    /\ lastOp.op = "tick throws"
    /\ Len(effects) = 2
    /\ Len(trace) = 2
    /\ trace[2].call = "update"
    /\ isRunning
    /\ pending = {animationId}


\* the update calls of the frame of a step
UpdateCalls(calls) == {calls[i] : i \in {j \in 1..Len(calls) : calls[j].call = "update"}}

\* C27 as stated: in every frame deltaTime >= 0 and deltaTime <= time; the
\* frame that start() runs passes time 0 and deltaTime 0; a later frame of
\* the run passes the time of the frame before it plus its own deltaTime,
\* where the time of the frame before is lastTime - startTime, which every
\* frame leaves equal to the time it passed and which no other operation on
\* a running engine changes.  So time is the sum of the deltaTimes of the
\* run, and no deltaTime spans a period in which the engine was stopped.
C27_TimeIsSumOfDeltas ==
    [][/\ \A c \in UpdateCalls(trace') :
             /\ FracLeq(Zero, c.b)
             /\ FracLeq(c.b, c.a)
             /\ c.a = Seconds(lastTime' - startTime')
             /\ lastOp'.op \in {"start", "start throws"} => c.a = Zero /\ c.b = Zero
             /\ lastOp'.op \in {"tick", "tick throws"} =>
                    c.a = FracSum(Seconds(lastTime - startTime), c.b)
       /\ (lastOp'.op \in {"start", "start throws"} /\ ~isRunning) =>
              lastTime' = startTime' /\ startTime' = now
       /\ (isRunning /\ lastOp'.op \notin {"tick", "tick throws"}) =>
              UNCHANGED <<lastTime, startTime>>]_vars

\* C27, amended: as above, but the frame that start() runs passes a time
\* and a deltaTime that are both the clock time between the reading start()
\* took (startTime) and the reading the frame took (lastTime), which is 0
\* only if the clock did not advance in between.
C27_TimeIsSumOfDeltasSinceStart ==
    [][/\ \A c \in UpdateCalls(trace') :
             /\ FracLeq(Zero, c.b)
             /\ FracLeq(c.b, c.a)
             /\ c.a = Seconds(lastTime' - startTime')
             /\ lastOp'.op \in {"start", "start throws"} => c.b = c.a
             /\ lastOp'.op \in {"tick", "tick throws"} =>
                    c.a = FracSum(Seconds(lastTime - startTime), c.b)
       /\ (lastOp'.op \in {"start", "start throws"} /\ ~isRunning) =>
              /\ startTime' = now
              /\ lastTime' = now'
              /\ now' >= now
       /\ (isRunning /\ lastOp'.op \notin {"tick", "tick throws"}) =>
              UNCHANGED <<lastTime, startTime>>]_vars

\* a run that began one millisecond after an earlier run was stopped, the
\* clock advancing by another millisecond before the first frame read it
C27_Witness ==
    /\ lastOp.op = "start"
    /\ startTime = 1
    /\ lastTime = 2
    /\ nextRafId > 2
    /\ \E c \in UpdateCalls(trace) : c.a = Seconds(1) /\ c.b = Seconds(1)

(***************************************************************************)
(* A ParticleSystem registered with the engine.                            *)
(*                                                                         *)
(* In this specification the effect e1 is the ParticleSystem: it carries   *)
(* out the init, resize and destroy calls the engine makes on e1.  The     *)
(* canvas has a layout box of 4 x 4 and the device pixel ratio is 1.       *)
(***************************************************************************)
RegisterBox == <<4, 4>>

\* the calls of a step that go to the particle system, carried out in order;
\* draws are the random numbers of the particles an init creates
RECURSIVE ParticleSystem_receive(_, _, _)
ParticleSystem_receive(ps, calls, draws) ==
    IF calls = <<>> THEN ps
    ELSE LET c == Head(calls)
             done ==
               CASE c.call = "init" -> ParticleSystem_init(ps, draws)
                 [] c.call = "resize" ->
                        ParticleSystem_resize(ps, c.a, c.b)
                 [] c.call = "destroy" -> [ps EXCEPT !.program = NoHandle,
                                                     !.positionBuffer = NoHandle]
                 [] OTHER -> ps
             next == IF c.eff # "e1" THEN ps
                     ELSE PsCalled(done, c.call, ToUnsignedLong(c.a),
                                   ToUnsignedLong(c.b))
         IN ParticleSystem_receive(next, Tail(calls), draws)

RegisterInit ==
    /\ EngineNew(Frac(1, 1), {}, {}, RegisterBox)
    /\ particleSystem = ParticleSystem_constructor(MaxCount)
    /\ gpu = Idle
    /\ construction = Idle
    /\ floatingParticles = Idle
    /\ pointer = Idle
    /\ gradientMesh = Idle
    /\ waveEffect = Idle

ParticleSystemReacts ==
    /\ \E draws \in [1..particleSystem.options.count -> ParticleDraws] :
           particleSystem' = ParticleSystem_receive(particleSystem, trace', draws)
    /\ UNCHANGED <<gpu, construction, floatingParticles, pointer, gradientMesh,
                   waveEffect>>

\* the page calls setCount on the system it has registered
RegisterSetCount ==
    \E count \in 0..MaxCount :
      \E draws \in [1..(count - Len(particleSystem.particles)) -> ParticleDraws] :
        /\ particleSystem' =
               PsCalled(ParticleSystem_setCount(particleSystem, count, draws),
                        "setCount", count, 0)
        /\ trace' = <<>>
        /\ lastOp' = Op("setCount", "e1", {}, {})
        /\ UNCHANGED <<effects, isRunning, animationId, startTime, lastTime, gl,
                       interactionManager, dpr, canvas, viewport, pending,
                       nextRafId, now, windowListeners, sinceStop>>
        /\ UNCHANGED <<gpu, construction, floatingParticles, pointer, gradientMesh,
                       waveEffect>>

RegisterNext ==
    \/ AddEffect /\ ParticleSystemReacts
    \/ RemoveEffect /\ ParticleSystemReacts
    \/ Destroy /\ ParticleSystemReacts
    \/ RegisterSetCount

SpecRegister == RegisterInit /\ [][RegisterNext]_vars

\* C28: when addEffect has returned for a particle system whose emitter
\* position the caller never set, on a surface that is not empty, the
\* emitter is at the centre of the surface and every particle of the system
\* lies within emitterRadius of it.
C28_InitialBatchAroundEmitter ==
    (lastOp.op = "addEffect" /\ lastOp.eff = "e1"
       /\ canvas.width > 0 /\ canvas.height > 0) =>
        LET e == particleSystem.options.emitterPosition
            r == particleSystem.options.emitterRadius
        IN /\ e = Vec2(FracTimes(particleSystem.width, Frac(1, 2)),
                       FracTimes(particleSystem.height, Frac(1, 2)))
           /\ \A i \in 1..Len(particleSystem.particles) :
                 LET q == particleSystem.particles[i].position
                     dx == FracSum(q.x, Minus(e.x))
                     dy == FracSum(q.y, Minus(e.y))
                 IN FracLeq(FracSum(FracTimes(dx, dx), FracTimes(dy, dy)),
                            FracTimes(r, r))


(***************************************************************************)
(* The engine after removeEffect and after destroy.                        *)
(***************************************************************************)
\* C29: once removeEffect(e) has returned, e is not in the effect list; the
\* engine calls update, render, resize and destroy only on effects in the
\* list, and only addEffect puts an effect into it.  So no operation after
\* removeEffect(e) calls e, until e is passed to addEffect again.
C29_RemovedEffectIsLeftAlone ==
    [][/\ lastOp'.op = "removeEffect" => lastOp'.eff \notin Range(effects')
       /\ lastOp'.op # "addEffect" =>
              /\ \A i \in 1..Len(trace') :
                    trace'[i].eff \in Effects => trace'[i].eff \in Range(effects)
              /\ Range(effects') \subseteq Range(effects)
       /\ (lastOp.op = "removeEffect"
             /\ ~(lastOp'.op = "addEffect" /\ lastOp'.eff = lastOp.eff)) =>
              \A i \in 1..Len(trace') : trace'[i].eff # lastOp.eff]_vars


\* C30: after destroy() has returned the engine does nothing more: no frame
\* callback is pending and the engine is not running, whatever start() calls
\* follow; the effect list stays empty, whatever addEffect calls follow; and
\* no operation calls init, update or render on an effect.
C30_DestroyedEngineIsInert ==
    Destroyed =>
        /\ pending = {}
        /\ ~isRunning
        /\ effects = <<>>
        /\ \A i \in 1..Len(trace) : trace[i].call \notin {"init", "update", "render"}

====
